---- MODULE Spec2Model ----
(***************************************************************************)
(* A model of the portkey SDK client core: the configuration builder        *)
(* (src/src/client/config.rs), the client and its request construction      *)
(* (src/src/client/portkey.rs), the pagination helper                       *)
(* (src/src/model/common.rs) and the request/response skeleton shared by    *)
(* the service operations (src/src/service/*.rs).                           *)
(*                                                                         *)
(* Text is modelled as a sequence of characters, each character a string    *)
(* of length one; a character outside ASCII is written "U+xxxx" and has     *)
(* the UTF-8 width Utf8Len gives it.  Option<T> is a sequence of length 0   *)
(* (None) or 1 (Some(v)), Result<T, E> a record tagged by ok.               *)
(***************************************************************************)
EXTENDS Integers, Sequences, FiniteSets, TLC

VARIABLES
    builder,    \* the PortkeyBuilder being filled in
    built,      \* Option<Result<PortkeyConfig, PortkeyBuilderError>>: build()'s return
    client,     \* Option<Result<PortkeyClient, Error>>: PortkeyClient::new's return
    request,    \* Option<RequestBuilder>: the request last built by get/post/...
    response,   \* Option<Result<Response, Error>>: what send() returned
    result,     \* Option<Result<T, Error>>: what the service operation returned
    call,       \* Option<operation>: the service operation in progress
    out,        \* Option<value>: the return value of the accessor last called
    env,        \* the process environment: each PORTKEY_* variable, set or not
    clones      \* the handles made by PortkeyClient::clone, each with its own call

vars == <<builder, built, client, request, response, result, call, out, env, clones>>

----------------------------------------------------------------------------
(* Option and Result *)

None == << >>
Some(v) == << v >>
IsSome(o) == Len(o) = 1
IsNone(o) == Len(o) = 0
Unwrap(o) == o[1]

Ok(v) == [ok |-> TRUE, val |-> v]
Err(e) == [ok |-> FALSE, err |-> e]

----------------------------------------------------------------------------
(* Text *)

\* The characters str::trim removes (Unicode White_Space), as far as the
\* model's alphabet has them.
WhiteSpace == {" ", "\t", "\n"}

\* The characters http::HeaderValue rejects (bytes below 32 other than tab,
\* and 127), as far as the model's alphabet has them.
ControlChars == {"\n"}

\* UTF-8 width of a character: String::len() counts bytes.
Utf8Len(c) == IF c = "U+00E9" THEN 2 ELSE IF c = "U+20AC" THEN 3 ELSE 1

RECURSIVE ByteLen(_)
ByteLen(s) == IF s = << >> THEN 0 ELSE Utf8Len(Head(s)) + ByteLen(Tail(s))

Min(S) == CHOOSE x \in S : \A y \in S : x <= y
Max(S) == CHOOSE x \in S : \A y \in S : x >= y

\* str::trim
trim(s) ==
    LET keep == {i \in 1..Len(s) : s[i] \notin WhiteSpace}
    IN  IF keep = {} THEN << >> ELSE SubSeq(s, Min(keep), Max(keep))

\* str::contains
Contains(hay, needle) ==
    \E i \in 0..(Len(hay) - Len(needle)) :
        \A j \in 1..Len(needle) : hay[i + j] = needle[j]

\* All texts over alphabet A of at most n characters.
RECURSIVE TextsUpTo(_, _)
TextsUpTo(A, n) ==
    IF n = 0 THEN {<< >>}
    ELSE LET shorter == TextsUpTo(A, n - 1)
         IN  shorter \cup {Append(s, c) : s \in {t \in shorter : Len(t) = n - 1}, c \in A}

default_base_url_text ==
    <<"h", "t", "t", "p", "s", ":", "/", "/", "a", "p", "i", ".", "p", "o", "r",
      "t", "k", "e", "y", ".", "a", "i", "/", "v", "1">>
ExampleBase ==
    <<"h", "t", "t", "p", "s", ":", "/", "/", "a", "p", "i", ".", "e", "x", "a",
      "m", "p", "l", "e", ".", "c", "o", "m", "/", "v", "1">>
ExampleBaseSlash == Append(ExampleBase, "/")
ChatPath ==
    <<"/", "c", "h", "a", "t", "/", "c", "o", "m", "p", "l", "e", "t", "i", "o",
      "n", "s">>
FilesPath == <<"/", "f", "i", "l", "e", "s">>

----------------------------------------------------------------------------
(* std::time::Duration: whole seconds and the nanoseconds below one second *)

from_secs(n) == [secs |-> n, nanos |-> 0]
is_zero(d) == d.secs = 0 /\ d.nanos = 0
DurationGt(a, b) == a.secs > b.secs \/ (a.secs = b.secs /\ a.nanos > b.nanos)

DefaultTimeoutSecs == 30
MaxTimeoutSecs == 300

----------------------------------------------------------------------------
(* AuthMethod, src/src/client/auth.rs *)

VirtualKey(vk) == [tag |-> "VirtualKey", virtual_key |-> vk]
ProviderAuth(p, a, h) ==
    [tag |-> "ProviderAuth", provider |-> p, authorization |-> a, custom_host |-> h]
Config(id) == [tag |-> "Config", config_id |-> id]

----------------------------------------------------------------------------
(* The process environment read by from_env: std::env::var(name) is Ok for  *)
(* a variable that is set and Err for one that is not                       *)

EnvNames ==
    {"PORTKEY_API_KEY", "PORTKEY_VIRTUAL_KEY", "PORTKEY_PROVIDER",
     "PORTKEY_AUTHORIZATION", "PORTKEY_CUSTOM_HOST", "PORTKEY_CONFIG",
     "PORTKEY_BASE_URL", "PORTKEY_TIMEOUT_SECS", "PORTKEY_TRACE_ID",
     "PORTKEY_CACHE_NAMESPACE", "PORTKEY_CACHE_FORCE_REFRESH"}

\* No PORTKEY_* variable is set.
NoEnv == [name \in EnvNames |-> None]

\* std::env::var(name)
env_var(e, name) == e[name]

----------------------------------------------------------------------------
(* PortkeyBuilder and PortkeyConfig, src/src/client/config.rs *)

\* PortkeyBuilder::default(): every field unset.
PortkeyBuilder_default ==
    [api_key |-> None, auth_method |-> None, base_url |-> None, timeout |-> None,
     client |-> None, trace_id |-> None, metadata |-> None,
     cache_namespace |-> None, cache_force_refresh |-> None]

default_base_url == default_base_url_text
default_timeout == from_secs(DefaultTimeoutSecs)

\* The mutant of validate_config that checks the key without trimming it.
validate_config_no_trim(b) ==
    IF IsSome(b.api_key) /\ Unwrap(b.api_key) = << >>
    THEN Err("API key cannot be empty")
    ELSE IF IsSome(b.timeout) /\ is_zero(Unwrap(b.timeout))
    THEN Err("Timeout must be greater than 0")
    ELSE IF IsSome(b.timeout) /\ DurationGt(Unwrap(b.timeout), from_secs(MaxTimeoutSecs))
    THEN Err("Timeout cannot exceed 300 seconds (5 minutes)")
    ELSE Ok("unit")

\* The mutant of validate_config that rejects the upper limit itself (>= for >).
validate_config_exclusive(b) ==
    IF IsSome(b.api_key) /\ trim(Unwrap(b.api_key)) = << >>
    THEN Err("API key cannot be empty")
    ELSE IF IsSome(b.timeout) /\ is_zero(Unwrap(b.timeout))
    THEN Err("Timeout must be greater than 0")
    ELSE IF IsSome(b.timeout)
            /\ ~DurationGt(from_secs(MaxTimeoutSecs), Unwrap(b.timeout))
    THEN Err("Timeout cannot exceed 300 seconds (5 minutes)")
    ELSE Ok("unit")

validate_config(b) ==
    IF IsSome(b.api_key) /\ trim(Unwrap(b.api_key)) = << >>
    THEN Err("API key cannot be empty")
    ELSE IF IsSome(b.timeout) /\ is_zero(Unwrap(b.timeout))
    THEN Err("Timeout must be greater than 0")
    ELSE IF IsSome(b.timeout) /\ DurationGt(Unwrap(b.timeout), from_secs(MaxTimeoutSecs))
    THEN Err("Timeout cannot exceed 300 seconds (5 minutes)")
    ELSE Ok("unit")

ValidationError(msg) == [kind |-> "ValidationError", msg |-> msg]
UninitializedField(name) == [kind |-> "UninitializedField", msg |-> name]

\* The mutant of build that takes 60 seconds for the default timeout.
build_other_defaults(b) ==
    LET checked == validate_config(b)
    IN  IF ~checked.ok THEN Err(ValidationError(checked.err))
        ELSE IF IsNone(b.api_key) THEN Err(UninitializedField("api_key"))
        ELSE IF IsNone(b.auth_method) THEN Err(UninitializedField("auth_method"))
        ELSE Ok([api_key |-> Unwrap(b.api_key),
                 auth_method |-> Unwrap(b.auth_method),
                 base_url |-> IF IsSome(b.base_url) THEN Unwrap(b.base_url)
                              ELSE default_base_url,
                 timeout |-> IF IsSome(b.timeout) THEN Unwrap(b.timeout)
                             ELSE from_secs(2 * DefaultTimeoutSecs),
                 client |-> b.client,
                 trace_id |-> b.trace_id,
                 metadata |-> b.metadata,
                 cache_namespace |-> b.cache_namespace,
                 cache_force_refresh |-> b.cache_force_refresh])

\* The mutant of build that takes an unset base_url from the environment.
build_env_base_url(b) ==
    LET checked == validate_config(b)
    IN  IF ~checked.ok THEN Err(ValidationError(checked.err))
        ELSE IF IsNone(b.api_key) THEN Err(UninitializedField("api_key"))
        ELSE IF IsNone(b.auth_method) THEN Err(UninitializedField("auth_method"))
        ELSE Ok([api_key |-> Unwrap(b.api_key),
                 auth_method |-> Unwrap(b.auth_method),
                 base_url |-> IF IsSome(b.base_url) THEN Unwrap(b.base_url)
                              ELSE IF IsSome(env["PORTKEY_BASE_URL"])
                              THEN Unwrap(env["PORTKEY_BASE_URL"])
                              ELSE default_base_url,
                 timeout |-> IF IsSome(b.timeout) THEN Unwrap(b.timeout)
                             ELSE default_timeout,
                 client |-> b.client,
                 trace_id |-> b.trace_id,
                 metadata |-> b.metadata,
                 cache_namespace |-> b.cache_namespace,
                 cache_force_refresh |-> b.cache_force_refresh])

\* The mutant of build that takes an unset auth_method for an empty virtual
\* key.
build_default_auth(b) ==
    LET checked == validate_config(b)
    IN  IF ~checked.ok THEN Err(ValidationError(checked.err))
        ELSE IF IsNone(b.api_key) THEN Err(UninitializedField("api_key"))
        ELSE Ok([api_key |-> Unwrap(b.api_key),
                 auth_method |-> IF IsSome(b.auth_method) THEN Unwrap(b.auth_method)
                                 ELSE VirtualKey(<< >>),
                 base_url |-> IF IsSome(b.base_url) THEN Unwrap(b.base_url)
                              ELSE default_base_url,
                 timeout |-> IF IsSome(b.timeout) THEN Unwrap(b.timeout)
                             ELSE default_timeout,
                 client |-> b.client,
                 trace_id |-> b.trace_id,
                 metadata |-> b.metadata,
                 cache_namespace |-> b.cache_namespace,
                 cache_force_refresh |-> b.cache_force_refresh])

\* PortkeyBuilder::build(), generated by derive_builder: the validate function
\* runs first, then each field is taken or defaulted; a required field that
\* was never set is an UninitializedField error.
build(b) ==
    LET checked == validate_config(b)
    IN  IF ~checked.ok THEN Err(ValidationError(checked.err))
        ELSE IF IsNone(b.api_key) THEN Err(UninitializedField("api_key"))
        ELSE IF IsNone(b.auth_method) THEN Err(UninitializedField("auth_method"))
        ELSE Ok([api_key |-> Unwrap(b.api_key),
                 auth_method |-> Unwrap(b.auth_method),
                 base_url |-> IF IsSome(b.base_url) THEN Unwrap(b.base_url)
                              ELSE default_base_url,
                 timeout |-> IF IsSome(b.timeout) THEN Unwrap(b.timeout)
                             ELSE default_timeout,
                 client |-> b.client,
                 trace_id |-> b.trace_id,
                 metadata |-> b.metadata,
                 cache_namespace |-> b.cache_namespace,
                 cache_force_refresh |-> b.cache_force_refresh])

----------------------------------------------------------------------------
(* The builder's setters and build(), as steps *)

Building == IsNone(built)

with_api_key(k) ==
    /\ Building
    /\ builder' = [builder EXCEPT !.api_key = Some(k)]
    /\ UNCHANGED <<built, client, request, response, result, call, out, env, clones>>

with_auth_method(a) ==
    /\ Building
    /\ builder' = [builder EXCEPT !.auth_method = Some(a)]
    /\ UNCHANGED <<built, client, request, response, result, call, out, env, clones>>

with_base_url(u) ==
    /\ Building
    /\ builder' = [builder EXCEPT !.base_url = Some(u)]
    /\ UNCHANGED <<built, client, request, response, result, call, out, env, clones>>

with_timeout(t) ==
    /\ Building
    /\ builder' = [builder EXCEPT !.timeout = Some(t)]
    /\ UNCHANGED <<built, client, request, response, result, call, out, env, clones>>

with_client(c) ==
    /\ Building
    /\ builder' = [builder EXCEPT !.client = Some(c)]
    /\ UNCHANGED <<built, client, request, response, result, call, out, env, clones>>

with_trace_id(t) ==
    /\ Building
    /\ builder' = [builder EXCEPT !.trace_id = Some(t)]
    /\ UNCHANGED <<built, client, request, response, result, call, out, env, clones>>

with_metadata(m) ==
    /\ Building
    /\ builder' = [builder EXCEPT !.metadata = Some(m)]
    /\ UNCHANGED <<built, client, request, response, result, call, out, env, clones>>

with_cache_namespace(n) ==
    /\ Building
    /\ builder' = [builder EXCEPT !.cache_namespace = Some(n)]
    /\ UNCHANGED <<built, client, request, response, result, call, out, env, clones>>

with_cache_force_refresh(f) ==
    /\ Building
    /\ builder' = [builder EXCEPT !.cache_force_refresh = Some(f)]
    /\ UNCHANGED <<built, client, request, response, result, call, out, env, clones>>

Build ==
    /\ Building
    /\ built' = Some(build(builder))
    /\ UNCHANGED <<builder, client, request, response, result, call, out, env, clones>>

----------------------------------------------------------------------------
(* Spec: the builder, from PortkeyConfig::builder() to build() *)

\* Nanoseconds tried below and above each whole second.
MaxNanos == 1

SK == <<"s", "k">>
ApiKeys == {<< >>, <<" ">>, <<"\t", " ">>, SK, <<" ", "s", "k", " ">>}

VK == <<"v", "k">>
OpenAi == <<"o", "a", "i">>
Bearer == <<"B", " ", "t">>
CustomHost == <<"h", ".", "c">>
ConfigId == <<"p", "c">>
AuthMethods == {VirtualKey(VK), ProviderAuth(OpenAi, Bearer, None), Config(ConfigId)}

TimeoutSecs == {0, 1, DefaultTimeoutSecs, MaxTimeoutSecs, MaxTimeoutSecs + 1}
Timeouts == {[secs |-> s, nanos |-> n] : s \in TimeoutSecs, n \in 0..MaxNanos}

TraceId == <<"t", "r">>
CacheNs == <<"n", "s">>
Metadata == [key |-> <<"k">>, value |-> <<"v">>]

Init ==
    /\ builder = PortkeyBuilder_default
    /\ built = None
    /\ client = None
    /\ request = None
    /\ response = None
    /\ result = None
    /\ call = None
    /\ out = None
    /\ env = NoEnv
    /\ clones = << >>

Next ==
    \/ \E k \in ApiKeys : with_api_key(k)
    \/ \E a \in AuthMethods : with_auth_method(a)
    \/ with_base_url(ExampleBase)
    \/ \E t \in Timeouts : with_timeout(t)
    \/ with_client("custom")
    \/ with_trace_id(TraceId)
    \/ with_metadata(Metadata)
    \/ with_cache_namespace(CacheNs)
    \/ with_cache_force_refresh(TRUE)
    \/ Build

Spec == Init /\ [][Next]_vars

----------------------------------------------------------------------------
(* masked_api_key and the Debug renderings, src/src/client/config.rs and     *)
(* src/src/client/portkey.rs                                                *)

\* A call either returns a value or panics.
Returned(v) == [panic |-> FALSE, val |-> v]
Panic == [panic |-> TRUE]

MaskLen == 4
Stars == <<"*", "*", "*", "*">>

\* &s[..n]: the characters that make up the first n bytes; a panic when byte
\* n is not a character boundary.
slice_to(s, n) ==
    LET cuts == {k \in 0..Len(s) : ByteLen(SubSeq(s, 1, k)) = n}
    IN  IF cuts = {} THEN Panic
        ELSE Returned(SubSeq(s, 1, CHOOSE k \in cuts : TRUE))

\* The mutant of masked_api_key that shows the whole key before the stars.
masked_api_key_whole(config) ==
    IF ByteLen(config.api_key) > MaskLen
    THEN Returned(config.api_key \o Stars)
    ELSE Returned(Stars)

\* PortkeyConfig::masked_api_key
masked_api_key(config) ==
    IF ByteLen(config.api_key) > MaskLen
    THEN LET head == slice_to(config.api_key, MaskLen)
         IN  IF head.panic THEN Panic ELSE Returned(head.val \o Stars)
    ELSE Returned(Stars)

\* <str as Debug>::fmt: the text in double quotes, with quote, backslash and
\* control characters escaped; printable characters stay as they are.
RECURSIVE escape_debug(_)
escape_debug(s) ==
    IF s = << >> THEN << >>
    ELSE LET c == Head(s)
             e == IF c = "\"" THEN <<"\\", "\"">>
                  ELSE IF c = "\\" THEN <<"\\", "\\">>
                  ELSE IF c = "\n" THEN <<"\\", "n">>
                  ELSE IF c = "\t" THEN <<"\\", "t">>
                  ELSE <<c>>
         IN  e \o escape_debug(Tail(s))
fmt_debug_str(s) == <<"\"">> \o escape_debug(s) \o <<"\"">>

DecimalDigits == <<"0", "1", "2", "3", "4", "5", "6", "7", "8", "9">>
RECURSIVE fmt_decimal(_)
fmt_decimal(n) ==
    IF n < 10 THEN <<DecimalDigits[n + 1]>>
    ELSE Append(fmt_decimal(n \div 10), DecimalDigits[(n % 10) + 1])

\* <Duration as Debug>::fmt for the durations the model builds: whole seconds
\* print as "30s", a duration below a microsecond as "1ns", and seconds with a
\* fraction below a microsecond as "30.000000001s".
fmt_duration(d) ==
    IF d.nanos = 0 THEN Append(fmt_decimal(d.secs), "s")
    ELSE IF d.secs = 0 THEN fmt_decimal(d.nanos) \o <<"n", "s">>
    ELSE fmt_decimal(d.secs) \o <<".", "0", "0", "0", "0", "0", "0", "0", "0">>
         \o fmt_decimal(d.nanos) \o <<"s">>

ConfigDebugHead ==
    <<"P", "o", "r", "t", "k", "e", "y", "C", "o", "n", "f", "i", "g", " ", "{",
      " ", "a", "p", "i", "_", "k", "e", "y", ":", " ">>
ClientDebugHead ==
    <<"P", "o", "r", "t", "k", "e", "y", "C", "l", "i", "e", "n", "t", " ", "{",
      " ", "a", "p", "i", "_", "k", "e", "y", ":", " ">>
DebugBaseUrl == <<",", " ", "b", "a", "s", "e", "_", "u", "r", "l", ":", " ">>
DebugTimeout == <<",", " ", "t", "i", "m", "e", "o", "u", "t", ":", " ">>
DebugTail == <<" ", "}">>

\* debug_struct(name).field("api_key", key).field("base_url", ..)
\*     .field("timeout", ..).finish()
debug_struct(head, key, config) ==
    head \o fmt_debug_str(key)
         \o DebugBaseUrl \o fmt_debug_str(config.base_url)
         \o DebugTimeout \o fmt_duration(config.timeout) \o DebugTail

\* impl fmt::Debug for PortkeyConfig
fmt_config(config) ==
    LET masked == masked_api_key(config)
    IN  IF masked.panic THEN Panic
        ELSE Returned(debug_struct(ConfigDebugHead, masked.val, config))

\* impl fmt::Debug for PortkeyClient
fmt_client(c) ==
    LET masked == masked_api_key(c.config)
    IN  IF masked.panic THEN Panic
        ELSE Returned(debug_struct(ClientDebugHead, masked.val, c.config))

\* The mutant of new that builds a transport of its own whatever the config
\* holds.
new_own_transport(config, transport_ok) ==
    IF transport_ok
    THEN Ok([config |-> config,
             client |-> [transport |-> "built", timeout |-> Some(config.timeout)]])
    ELSE Err("Http")

\* PortkeyClient::new: the injected transport if the config holds one,
\* otherwise a transport built with the config's timeout; building one can
\* fail (transport_ok is reqwest's ClientBuilder::build succeeding).
new(config, transport_ok) ==
    IF IsSome(config.client)
    THEN Ok([config |-> config,
             client |-> [transport |-> Unwrap(config.client), timeout |-> None]])
    ELSE IF transport_ok
    THEN Ok([config |-> config,
             client |-> [transport |-> "built", timeout |-> Some(config.timeout)]])
    ELSE Err("Http")

HasConfig == IsSome(built) /\ Unwrap(built).ok
TheConfig == Unwrap(built).val
HasClient == IsSome(client) /\ Unwrap(client).ok
TheClient == Unwrap(client).val

New ==
    /\ HasConfig
    /\ IsNone(client)
    /\ \E transport_ok \in BOOLEAN : client' = Some(new(TheConfig, transport_ok))
    /\ UNCHANGED <<builder, built, request, response, result, call, out, env, clones>>

MaskedApiKey ==
    /\ HasConfig
    /\ out' = Some([fn |-> "masked_api_key", ret |-> masked_api_key(TheConfig)])
    /\ UNCHANGED <<builder, built, client, request, response, result, call, env, clones>>

FmtConfig ==
    /\ HasConfig
    /\ out' = Some([fn |-> "fmt_config", ret |-> fmt_config(TheConfig)])
    /\ UNCHANGED <<builder, built, client, request, response, result, call, env, clones>>

FmtClient ==
    /\ HasClient
    /\ out' = Some([fn |-> "fmt_client", ret |-> fmt_client(TheClient)])
    /\ UNCHANGED <<builder, built, client, request, response, result, call, env, clones>>

----------------------------------------------------------------------------
(* SpecMask: keys of every shape, built into a config and rendered *)

\* The longest generated API key, in characters.
MaxKeyLen == 5

MaskAlphabet == {"K", "*", "U+00E9"}
LabelKey == <<"a", "p", "i", "_", "k", "e", "y">>
UrlWithKey == <<"h", "t", "t", "p", ":", "/", "/", "h", "/", "K", "K", "K", "K", "K">>
MaskKeys == TextsUpTo(MaskAlphabet, MaxKeyLen) \cup {LabelKey}
MaskBaseUrls == {ExampleBase, UrlWithKey}

InitMask ==
    /\ builder = [PortkeyBuilder_default EXCEPT !.auth_method = Some(VirtualKey(VK))]
    /\ built = None
    /\ client = None
    /\ request = None
    /\ response = None
    /\ result = None
    /\ call = None
    /\ out = None
    /\ env = NoEnv
    /\ clones = << >>

NextMask ==
    \/ \E k \in MaskKeys : with_api_key(k)
    \/ \E u \in MaskBaseUrls : with_base_url(u)
    \/ Build
    \/ New
    \/ MaskedApiKey
    \/ FmtConfig
    \/ FmtClient

SpecMask == InitMask /\ [][NextMask]_vars

----------------------------------------------------------------------------
(* Request construction, src/src/client/portkey.rs, over reqwest's          *)
(* RequestBuilder, which holds Result<Request, Error>                       *)

StartsWith(s, p) == Len(s) >= Len(p) /\ SubSeq(s, 1, Len(p)) = p

\* The index of the first character of s that is in set C, Len(s) + 1 if none.
FirstOf(s, C) == Min({i \in 1..Len(s) : s[i] \in C} \cup {Len(s) + 1})

HttpsScheme == <<"h", "t", "t", "p", "s", ":", "/", "/">>
HttpScheme == <<"h", "t", "t", "p", ":", "/", "/">>

\* url::Url::parse, as far as the model's URLs go: an http or https scheme,
\* a host up to the next "/", "?" or "#", the path up to "?" or "#" (an empty
\* path is "/"), the query after "?" up to "#".  Text without a scheme is a
\* relative URL without a base, text without a host has an empty host.
Url_parse(text) ==
    LET scheme == IF StartsWith(text, HttpsScheme) THEN HttpsScheme
                  ELSE IF StartsWith(text, HttpScheme) THEN HttpScheme
                  ELSE << >>
        rest == SubSeq(text, Len(scheme) + 1, Len(text))
        hostEnd == FirstOf(rest, {"/", "?", "#"})
        afterHost == SubSeq(rest, hostEnd, Len(rest))
        pathEnd == FirstOf(afterHost, {"?", "#"})
        afterPath == SubSeq(afterHost, pathEnd, Len(afterHost))
        fragment == FirstOf(afterPath, {"#"})
    IN  IF scheme = << >> THEN Err("RelativeUrlWithoutBase")
        ELSE IF hostEnd = 1 THEN Err("EmptyHost")
        ELSE Ok([scheme |-> scheme,
                 host |-> SubSeq(rest, 1, hostEnd - 1),
                 path |-> IF pathEnd = 1 THEN <<"/">>
                          ELSE SubSeq(afterHost, 1, pathEnd - 1),
                 query |-> IF afterPath # << >> /\ Head(afterPath) = "?"
                           THEN Some(SubSeq(afterPath, 2, fragment - 1))
                           ELSE None])

\* Client::get(url) and the like: Client::request(method, url), which parses
\* the URL; a URL that does not parse leaves the builder holding the error.
reqwest_request(method, text) ==
    LET url == Url_parse(text)
    IN  IF url.ok
        THEN Ok([method |-> method, url |-> url.val, timeout |-> None,
                 headers |-> << >>, body |-> None])
        ELSE Err("Builder")

\* The mutant of rb_timeout that leaves the timeout to the transport.
rb_timeout_of_transport(rb, t) == rb

\* RequestBuilder::timeout
rb_timeout(rb, t) == IF rb.ok THEN Ok([rb.val EXCEPT !.timeout = Some(t)]) ELSE rb

\* http::HeaderName lowercases the names it is given.
HeaderName(name) == IF name = "Authorization" THEN "authorization" ELSE name

\* http::HeaderValue::from_str accepts text without control characters.
IsHeaderValue(v) == \A i \in 1..Len(v) : v[i] \notin ControlChars

\* The mutant of header that puts the new header in front of the others.
header_in_front(rb, name, value) ==
    IF ~rb.ok THEN rb
    ELSE IF ~IsHeaderValue(value) THEN Err("Builder")
    ELSE Ok([rb.val EXCEPT
                !.headers = <<[name |-> HeaderName(name), value |-> value]>> \o @])

\* RequestBuilder::header: appends the header; a value that is no header
\* value leaves the builder holding the error.
header(rb, name, value) ==
    IF ~rb.ok THEN rb
    ELSE IF ~IsHeaderValue(value) THEN Err("Builder")
    ELSE Ok([rb.val EXCEPT
                !.headers = Append(@, [name |-> HeaderName(name), value |-> value])])

\* The mutant of api_key_header that sends the masked key.
api_key_header_masked(config, rb) ==
    header(rb, "x-portkey-api-key", masked_api_key(config).val)

\* apply_portkey_headers, "Always add the Portkey API key"
api_key_header(config, rb) == header(rb, "x-portkey-api-key", config.api_key)

\* The mutant of auth_method_headers that sends the custom host header for
\* every ProviderAuth and the provider header also with a virtual key.
auth_method_headers_leaky(auth_method, rb) ==
    IF auth_method.tag = "VirtualKey"
    THEN header(header(rb, "x-portkey-virtual-key", auth_method.virtual_key),
                "x-portkey-provider", auth_method.virtual_key)
    ELSE IF auth_method.tag = "ProviderAuth"
    THEN header(header(rb, "x-portkey-provider", auth_method.provider),
                "Authorization", auth_method.authorization)
    ELSE header(rb, "x-portkey-config", auth_method.config_id)

\* apply_portkey_headers, "Add authentication method headers": the match on
\* config.auth_method()
auth_method_headers(auth_method, rb) ==
    IF auth_method.tag = "VirtualKey"
    THEN header(rb, "x-portkey-virtual-key", auth_method.virtual_key)
    ELSE IF auth_method.tag = "ProviderAuth"
    THEN LET named == header(header(rb, "x-portkey-provider", auth_method.provider),
                             "Authorization", auth_method.authorization)
         IN  IF IsSome(auth_method.custom_host)
             THEN header(named, "x-portkey-custom-host", Unwrap(auth_method.custom_host))
             ELSE named
    ELSE header(rb, "x-portkey-config", auth_method.config_id)

\* serde_json::to_string of the metadata map, here a map of one entry.  It
\* returns a Result; a map marked unencodable stands for one it returns Err
\* for (no HashMap<String, serde_json::Value> is known to make it fail).
serde_json_to_string(metadata) ==
    IF "unencodable" \in DOMAIN metadata THEN Err("serde_json::Error")
    ELSE Ok(<<"{", "\"">> \o metadata.key \o <<"\"", ":", "\"">> \o metadata.value
            \o <<"\"", "}">>)

\* The mutant of bool_to_string that writes the flag as a digit.
bool_to_digit(b) == IF b THEN <<"1">> ELSE <<"0">>

\* bool::to_string
bool_to_string(b) ==
    IF b THEN <<"t", "r", "u", "e">> ELSE <<"f", "a", "l", "s", "e">>

\* The mutant of optional_headers that gives up the request when the metadata
\* does not serialize.
optional_headers_abort(config, rb) ==
    LET traced == IF IsSome(config.trace_id)
                  THEN header(rb, "x-portkey-trace-id", Unwrap(config.trace_id))
                  ELSE rb
        json == IF IsSome(config.metadata)
                THEN serde_json_to_string(Unwrap(config.metadata))
                ELSE Err("unset")
        described == IF IsSome(config.metadata) /\ json.ok
                     THEN header(traced, "x-portkey-metadata", json.val)
                     ELSE IF IsSome(config.metadata) THEN Err("Builder")
                     ELSE traced
        spaced == IF IsSome(config.cache_namespace)
                  THEN header(described, "x-portkey-cache-namespace",
                              Unwrap(config.cache_namespace))
                  ELSE described
    IN  IF IsSome(config.cache_force_refresh)
        THEN header(spaced, "x-portkey-cache-force-refresh",
                    bool_to_string(Unwrap(config.cache_force_refresh)))
        ELSE spaced

\* apply_portkey_headers, "Add optional headers"
optional_headers(config, rb) ==
    LET traced == IF IsSome(config.trace_id)
                  THEN header(rb, "x-portkey-trace-id", Unwrap(config.trace_id))
                  ELSE rb
        json == IF IsSome(config.metadata)
                THEN serde_json_to_string(Unwrap(config.metadata))
                ELSE Err("unset")
        described == IF IsSome(config.metadata) /\ json.ok
                     THEN header(traced, "x-portkey-metadata", json.val)
                     ELSE traced
        spaced == IF IsSome(config.cache_namespace)
                  THEN header(described, "x-portkey-cache-namespace",
                              Unwrap(config.cache_namespace))
                  ELSE described
    IN  IF IsSome(config.cache_force_refresh)
        THEN header(spaced, "x-portkey-cache-force-refresh",
                    bool_to_string(Unwrap(config.cache_force_refresh)))
        ELSE spaced

\* PortkeyClient::apply_portkey_headers
apply_portkey_headers(c, rb) ==
    optional_headers(c.config,
        auth_method_headers(c.config.auth_method, api_key_header(c.config, rb)))

\* format!("{}{}", self.inner.config.base_url(), path)
format_url(base_url, path) == base_url \o path

\* PortkeyClient::get, post, put, patch and delete differ in the method only.
request_with(c, method, path) ==
    apply_portkey_headers(c,
        rb_timeout(reqwest_request(method, format_url(c.config.base_url, path)),
                   c.config.timeout))

get(c, path) == request_with(c, "GET", path)
post(c, path) == request_with(c, "POST", path)
put(c, path) == request_with(c, "PUT", path)
patch(c, path) == request_with(c, "PATCH", path)
delete(c, path) == request_with(c, "DELETE", path)

Get(path) ==
    /\ HasClient
    /\ request' = Some([path |-> path, rb |-> get(TheClient, path)])
    /\ UNCHANGED <<builder, built, client, response, result, call, out, env, clones>>

Post(path) ==
    /\ HasClient
    /\ request' = Some([path |-> path, rb |-> post(TheClient, path)])
    /\ UNCHANGED <<builder, built, client, response, result, call, out, env, clones>>

Put(path) ==
    /\ HasClient
    /\ request' = Some([path |-> path, rb |-> put(TheClient, path)])
    /\ UNCHANGED <<builder, built, client, response, result, call, out, env, clones>>

Patch(path) ==
    /\ HasClient
    /\ request' = Some([path |-> path, rb |-> patch(TheClient, path)])
    /\ UNCHANGED <<builder, built, client, response, result, call, out, env, clones>>

Delete(path) ==
    /\ HasClient
    /\ request' = Some([path |-> path, rb |-> delete(TheClient, path)])
    /\ UNCHANGED <<builder, built, client, response, result, call, out, env, clones>>

----------------------------------------------------------------------------
(* SpecRequest: a client of every configuration building requests *)

RequestApiKeys == {SK, <<" ", "s", "k", " ">>, <<"s", "\n">>}
RequestAuthMethods == AuthMethods \cup {ProviderAuth(OpenAi, Bearer, Some(CustomHost))}
NoUrl == <<"n", "o", "u", "r", "l">>
RequestBaseUrls == {ExampleBase, ExampleBaseSlash, NoUrl}
RequestPaths == {ChatPath, FilesPath}
\* Metadata whose serialization fails.
UnencodableMetadata == [key |-> <<"k">>, value |-> <<"v">>, unencodable |-> TRUE]

NextRequest ==
    \/ \E k \in RequestApiKeys : with_api_key(k)
    \/ \E a \in RequestAuthMethods : with_auth_method(a)
    \/ \E u \in RequestBaseUrls : with_base_url(u)
    \/ with_timeout(from_secs(2 * DefaultTimeoutSecs))
    \/ with_client("custom")
    \/ with_trace_id(TraceId)
    \/ \E m \in {Metadata, UnencodableMetadata} : with_metadata(m)
    \/ with_cache_namespace(CacheNs)
    \/ \E f \in BOOLEAN : with_cache_force_refresh(f)
    \/ Build
    \/ New
    \/ \E path \in RequestPaths : Get(path)
    \/ \E path \in RequestPaths : Post(path)
    \/ \E path \in RequestPaths : Put(path)
    \/ \E path \in RequestPaths : Patch(path)
    \/ \E path \in RequestPaths : Delete(path)

SpecRequest == Init /\ [][NextRequest]_vars

----------------------------------------------------------------------------
(* The service operations, src/src/service/*.rs.  Every operation builds   *)
(* one request, sends it, applies error_for_status to the response and     *)
(* then reads the body.                                                     *)

\* An operation: the client method or helper it builds its request with, the
\* HTTP method, the body it attaches, how it reads the response, how it
\* attaches query parameters, and its path, where "{}" stands for an argument
\* of format!.
Op(name, via, method, body, parse, query, path) ==
    [name |-> name, via |-> via, method |-> method, body |-> body,
     parse |-> parse, query |-> query, path |-> path]

\* src/src/service/assistants.rs
AssistantsOps ==
    { Op("create_assistant", "post", "POST", "json", "json", "none",
         <<"/", "a", "s", "s", "i", "s", "t", "a", "n", "t", "s">>),
      Op("retrieve_assistant", "get", "GET", "none", "json", "none",
         <<"/", "a", "s", "s", "i", "s", "t", "a", "n", "t", "s", "/",
           "{}">>),
      Op("modify_assistant", "post", "POST", "json", "json", "none",
         <<"/", "a", "s", "s", "i", "s", "t", "a", "n", "t", "s", "/",
           "{}">>),
      Op("delete_assistant", "delete", "DELETE", "none", "json", "none",
         <<"/", "a", "s", "s", "i", "s", "t", "a", "n", "t", "s", "/",
           "{}">>),
      Op("list_assistants", "get", "GET", "none", "json", "build_url",
         <<"/", "a", "s", "s", "i", "s", "t", "a", "n", "t", "s">>),
      Op("create_assistant_file", "post", "POST", "json", "json", "none",
         <<"/", "a", "s", "s", "i", "s", "t", "a", "n", "t", "s", "/",
           "{}", "/", "f", "i", "l", "e", "s">>),
      Op("retrieve_assistant_file", "get", "GET", "none", "json", "none",
         <<"/", "a", "s", "s", "i", "s", "t", "a", "n", "t", "s", "/",
           "{}", "/", "f", "i", "l", "e", "s", "/", "{}">>),
      Op("delete_assistant_file", "delete", "DELETE", "none", "json", "none",
         <<"/", "a", "s", "s", "i", "s", "t", "a", "n", "t", "s", "/",
           "{}", "/", "f", "i", "l", "e", "s", "/", "{}">>),
      Op("list_assistant_files", "get", "GET", "none", "json", "build_url",
         <<"/", "a", "s", "s", "i", "s", "t", "a", "n", "t", "s", "/",
           "{}", "/", "f", "i", "l", "e", "s">>) }

\* src/src/service/audio.rs
AudioOps ==
    { Op("create_transcription", "post", "POST", "multipart", "json", "none",
         <<"/", "a", "u", "d", "i", "o", "/", "t", "r", "a", "n", "s", "c",
           "r", "i", "p", "t", "i", "o", "n", "s">>),
      Op("create_speech", "post", "POST", "json", "bytes", "none",
         <<"/", "a", "u", "d", "i", "o", "/", "s", "p", "e", "e", "c",
           "h">>),
      Op("create_translation", "post", "POST", "multipart", "json", "none",
         <<"/", "a", "u", "d", "i", "o", "/", "t", "r", "a", "n", "s", "l",
           "a", "t", "i", "o", "n", "s">>) }

\* src/src/service/batches.rs
BatchesOps ==
    { Op("create_batch", "send_json", "POST", "json", "json", "none",
         <<"/", "b", "a", "t", "c", "h", "e", "s">>),
      Op("retrieve_batch", "send", "GET", "none", "json", "none",
         <<"/", "b", "a", "t", "c", "h", "e", "s", "/", "{}">>),
      Op("cancel_batch", "send_json", "POST", "json", "json", "none",
         <<"/", "b", "a", "t", "c", "h", "e", "s", "/", "{}", "/", "c",
           "a", "n", "c", "e", "l">>),
      Op("list_batches", "send_with_params", "GET", "none", "json", "send_with_params",
         <<"/", "b", "a", "t", "c", "h", "e", "s">>) }

\* src/src/service/chat.rs
ChatOps ==
    { Op("create_chat_completion", "post", "POST", "json", "json", "none",
         <<"/", "c", "h", "a", "t", "/", "c", "o", "m", "p", "l", "e", "t",
           "i", "o", "n", "s">>) }

\* src/src/service/completions.rs
CompletionsOps ==
    { Op("create_completion", "post", "POST", "json", "json", "none",
         <<"/", "c", "o", "m", "p", "l", "e", "t", "i", "o", "n", "s">>) }

\* src/src/service/embeddings.rs
EmbeddingsOps ==
    { Op("create_embedding", "post", "POST", "json", "json", "none",
         <<"/", "e", "m", "b", "e", "d", "d", "i", "n", "g", "s">>) }

\* src/src/service/feedback.rs
FeedbackOps ==
    { Op("create_feedback", "send_json", "POST", "json", "json", "none",
         <<"/", "f", "e", "e", "d", "b", "a", "c", "k">>),
      Op("update_feedback", "send_json", "PATCH", "json", "json", "none",
         <<"/", "f", "e", "e", "d", "b", "a", "c", "k", "/", "{}">>) }

\* src/src/service/files.rs
FilesOps ==
    { Op("upload_file", "post", "POST", "multipart", "json", "none",
         <<"/", "f", "i", "l", "e", "s">>),
      Op("list_files", "get", "GET", "none", "json", "none",
         <<"/", "f", "i", "l", "e", "s">>),
      Op("retrieve_file", "get", "GET", "none", "json", "none",
         <<"/", "f", "i", "l", "e", "s", "/", "{}">>),
      Op("retrieve_file_content", "get", "GET", "none", "bytes", "none",
         <<"/", "f", "i", "l", "e", "s", "/", "{}", "/", "c", "o", "n",
           "t", "e", "n", "t">>),
      Op("delete_file", "delete", "DELETE", "none", "json", "none",
         <<"/", "f", "i", "l", "e", "s", "/", "{}">>) }

\* src/src/service/fine_tuning.rs
FineTuningOps ==
    { Op("create_fine_tuning_job", "post", "POST", "json", "json", "none",
         <<"/", "f", "i", "n", "e", "_", "t", "u", "n", "i", "n", "g", "/",
           "j", "o", "b", "s">>),
      Op("list_fine_tuning_jobs", "get", "GET", "none", "json", "build_url",
         <<"/", "f", "i", "n", "e", "_", "t", "u", "n", "i", "n", "g", "/",
           "j", "o", "b", "s">>),
      Op("retrieve_fine_tuning_job", "get", "GET", "none", "json", "none",
         <<"/", "f", "i", "n", "e", "_", "t", "u", "n", "i", "n", "g", "/",
           "j", "o", "b", "s", "/", "{}">>),
      Op("cancel_fine_tuning_job", "post", "POST", "json", "json", "none",
         <<"/", "f", "i", "n", "e", "_", "t", "u", "n", "i", "n", "g", "/",
           "j", "o", "b", "s", "/", "{}", "/", "c", "a", "n", "c", "e",
           "l">>),
      Op("list_fine_tuning_job_events", "get", "GET", "none", "json", "build_url",
         <<"/", "f", "i", "n", "e", "_", "t", "u", "n", "i", "n", "g", "/",
           "j", "o", "b", "s", "/", "{}", "/", "e", "v", "e", "n", "t",
           "s">>),
      Op("list_fine_tuning_job_checkpoints", "get", "GET", "none", "json", "build_url",
         <<"/", "f", "i", "n", "e", "_", "t", "u", "n", "i", "n", "g", "/",
           "j", "o", "b", "s", "/", "{}", "/", "c", "h", "e", "c", "k", "p",
           "o", "i", "n", "t", "s">>) }

\* src/src/service/images.rs
ImagesOps ==
    { Op("generate_image", "post", "POST", "json", "json", "none",
         <<"/", "i", "m", "a", "g", "e", "s", "/", "g", "e", "n", "e", "r",
           "a", "t", "i", "o", "n", "s">>),
      Op("edit_image", "post", "POST", "multipart", "json", "none",
         <<"/", "i", "m", "a", "g", "e", "s", "/", "e", "d", "i", "t",
           "s">>),
      Op("create_image_variation", "post", "POST", "multipart", "json", "none",
         <<"/", "i", "m", "a", "g", "e", "s", "/", "v", "a", "r", "i", "a",
           "t", "i", "o", "n", "s">>) }

\* src/src/service/logs.rs
LogsOps ==
    { Op("create_log_export", "post", "POST", "json", "json", "none",
         <<"/", "l", "o", "g", "s", "/", "e", "x", "p", "o", "r", "t",
           "s">>),
      Op("get_log_export", "get", "GET", "none", "json", "none",
         <<"/", "l", "o", "g", "s", "/", "e", "x", "p", "o", "r", "t", "s",
           "/", "{}">>),
      Op("start_log_export", "post", "POST", "none", "json", "none",
         <<"/", "l", "o", "g", "s", "/", "e", "x", "p", "o", "r", "t", "s",
           "/", "{}", "/", "s", "t", "a", "r", "t">>),
      Op("cancel_log_export", "post", "POST", "none", "json", "none",
         <<"/", "l", "o", "g", "s", "/", "e", "x", "p", "o", "r", "t", "s",
           "/", "{}", "/", "c", "a", "n", "c", "e", "l">>),
      Op("download_log_export", "get", "GET", "none", "json", "none",
         <<"/", "l", "o", "g", "s", "/", "e", "x", "p", "o", "r", "t", "s",
           "/", "{}", "/", "d", "o", "w", "n", "l", "o", "a", "d">>),
      Op("insert_log", "post", "POST", "json", "json", "none",
         <<"/", "l", "o", "g", "s">>),
      Op("update_log_export", "put", "PUT", "json", "json", "none",
         <<"/", "l", "o", "g", "s", "/", "e", "x", "p", "o", "r", "t", "s",
           "/", "{}">>),
      Op("list_log_exports", "get", "GET", "none", "json", "list_log_exports",
         <<"/", "l", "o", "g", "s", "/", "e", "x", "p", "o", "r", "t",
           "s">>) }

\* src/src/service/messages.rs
MessagesOps ==
    { Op("create_message", "post", "POST", "json", "json", "none",
         <<"/", "t", "h", "r", "e", "a", "d", "s", "/", "{}", "/", "m",
           "e", "s", "s", "a", "g", "e", "s">>),
      Op("retrieve_message", "get", "GET", "none", "json", "none",
         <<"/", "t", "h", "r", "e", "a", "d", "s", "/", "{}", "/", "m",
           "e", "s", "s", "a", "g", "e", "s", "/", "{}">>),
      Op("modify_message", "post", "POST", "json", "json", "none",
         <<"/", "t", "h", "r", "e", "a", "d", "s", "/", "{}", "/", "m",
           "e", "s", "s", "a", "g", "e", "s", "/", "{}">>),
      Op("list_messages", "get", "GET", "none", "json", "join",
         <<"/", "t", "h", "r", "e", "a", "d", "s", "/", "{}", "/", "m",
           "e", "s", "s", "a", "g", "e", "s">>),
      Op("retrieve_message_file", "get", "GET", "none", "json", "none",
         <<"/", "t", "h", "r", "e", "a", "d", "s", "/", "{}", "/", "m",
           "e", "s", "s", "a", "g", "e", "s", "/", "{}", "/", "f", "i", "l",
           "e", "s", "/", "{}">>),
      Op("list_message_files", "get", "GET", "none", "json", "join",
         <<"/", "t", "h", "r", "e", "a", "d", "s", "/", "{}", "/", "m",
           "e", "s", "s", "a", "g", "e", "s", "/", "{}", "/", "f", "i", "l",
           "e", "s">>) }

\* src/src/service/models.rs
ModelsOps ==
    { Op("list_models", "request_builder", "GET", "none", "json", "list_models",
         <<"/", "m", "o", "d", "e", "l", "s">>) }

\* src/src/service/moderations.rs
ModerationsOps ==
    { Op("create_moderation", "send_json", "POST", "json", "json", "none",
         <<"/", "m", "o", "d", "e", "r", "a", "t", "i", "o", "n", "s">>) }

\* src/src/service/prompts.rs
PromptsOps ==
    { Op("execute_prompt", "post", "POST", "json", "json", "none",
         <<"/", "p", "r", "o", "m", "p", "t", "s", "/", "{}", "/", "c",
           "o", "m", "p", "l", "e", "t", "i", "o", "n", "s">>),
      Op("render_prompt", "post", "POST", "json", "json", "none",
         <<"/", "p", "r", "o", "m", "p", "t", "s", "/", "{}", "/", "r",
           "e", "n", "d", "e", "r">>) }

\* src/src/service/responses.rs
ResponsesOps ==
    { Op("create_response", "send_json", "POST", "json", "json", "none",
         <<"/", "r", "e", "s", "p", "o", "n", "s", "e", "s">>),
      Op("get_response", "send", "GET", "none", "json", "none",
         <<"/", "r", "e", "s", "p", "o", "n", "s", "e", "s", "/", "{}">>),
      Op("delete_response", "send", "DELETE", "none", "unit", "none",
         <<"/", "r", "e", "s", "p", "o", "n", "s", "e", "s", "/", "{}">>),
      Op("list_input_items", "request_builder", "GET", "none", "json", "list_input_items",
         <<"/", "r", "e", "s", "p", "o", "n", "s", "e", "s", "/", "{}",
           "/", "i", "n", "p", "u", "t", "_", "i", "t", "e", "m", "s">>) }

\* src/src/service/runs.rs
RunsOps ==
    { Op("create_run", "post", "POST", "json", "json", "none",
         <<"/", "t", "h", "r", "e", "a", "d", "s", "/", "{}", "/", "r",
           "u", "n", "s">>),
      Op("retrieve_run", "get", "GET", "none", "json", "none",
         <<"/", "t", "h", "r", "e", "a", "d", "s", "/", "{}", "/", "r",
           "u", "n", "s", "/", "{}">>),
      Op("modify_run", "post", "POST", "json", "json", "none",
         <<"/", "t", "h", "r", "e", "a", "d", "s", "/", "{}", "/", "r",
           "u", "n", "s", "/", "{}">>),
      Op("list_runs", "get", "GET", "none", "json", "join",
         <<"/", "t", "h", "r", "e", "a", "d", "s", "/", "{}", "/", "r",
           "u", "n", "s">>),
      Op("submit_tool_outputs", "post", "POST", "json", "json", "none",
         <<"/", "t", "h", "r", "e", "a", "d", "s", "/", "{}", "/", "r",
           "u", "n", "s", "/", "{}", "/", "s", "u", "b", "m", "i", "t", "_",
           "t", "o", "o", "l", "_", "o", "u", "t", "p", "u", "t", "s">>),
      Op("cancel_run", "post", "POST", "json", "json", "none",
         <<"/", "t", "h", "r", "e", "a", "d", "s", "/", "{}", "/", "r",
           "u", "n", "s", "/", "{}", "/", "c", "a", "n", "c", "e", "l">>),
      Op("create_thread_and_run", "post", "POST", "json", "json", "none",
         <<"/", "t", "h", "r", "e", "a", "d", "s", "/", "r", "u", "n",
           "s">>),
      Op("retrieve_run_step", "get", "GET", "none", "json", "none",
         <<"/", "t", "h", "r", "e", "a", "d", "s", "/", "{}", "/", "r",
           "u", "n", "s", "/", "{}", "/", "s", "t", "e", "p", "s", "/",
           "{}">>),
      Op("list_run_steps", "get", "GET", "none", "json", "join",
         <<"/", "t", "h", "r", "e", "a", "d", "s", "/", "{}", "/", "r",
           "u", "n", "s", "/", "{}", "/", "s", "t", "e", "p", "s">>) }

\* src/src/service/threads.rs
ThreadsOps ==
    { Op("create_thread", "post", "POST", "json", "json", "none",
         <<"/", "t", "h", "r", "e", "a", "d", "s">>),
      Op("retrieve_thread", "get", "GET", "none", "json", "none",
         <<"/", "t", "h", "r", "e", "a", "d", "s", "/", "{}">>),
      Op("modify_thread", "post", "POST", "json", "json", "none",
         <<"/", "t", "h", "r", "e", "a", "d", "s", "/", "{}">>),
      Op("delete_thread", "delete", "DELETE", "none", "json", "none",
         <<"/", "t", "h", "r", "e", "a", "d", "s", "/", "{}">>) }

ServiceOps ==
    AssistantsOps \cup AudioOps \cup BatchesOps \cup ChatOps \cup CompletionsOps \cup
    EmbeddingsOps \cup FeedbackOps \cup FilesOps \cup FineTuningOps \cup ImagesOps \cup LogsOps \cup
    MessagesOps \cup ModelsOps \cup ModerationsOps \cup PromptsOps \cup ResponsesOps \cup
    RunsOps \cup ThreadsOps

\* format!(path, id, ..): every "{}" of the path is replaced by an argument.
RECURSIVE format_path(_, _)
format_path(template, id) ==
    IF template = << >> THEN << >>
    ELSE (IF Head(template) = "{}" THEN id ELSE <<Head(template)>>)
         \o format_path(Tail(template), id)

ApplicationJson ==
    <<"a", "p", "p", "l", "i", "c", "a", "t", "i", "o", "n", "/", "j", "s", "o", "n">>
MultipartFormData ==
    <<"m", "u", "l", "t", "i", "p", "a", "r", "t", "/", "f", "o", "r", "m", "-",
      "d", "a", "t", "a">>

\* RequestBuilder::json: the content type and the serialized body
rb_json(rb) ==
    IF rb.ok
    THEN Ok([rb.val EXCEPT
                !.headers = Append(@, [name |-> "content-type", value |-> ApplicationJson]),
                !.body = Some("json")])
    ELSE rb

\* The mutant of rb_multipart that attaches the JSON body as well.
rb_multipart_and_json(rb) ==
    IF rb.ok
    THEN Ok([rb_json(rb).val EXCEPT
                !.headers = Append(@, [name |-> "content-type", value |-> MultipartFormData]),
                !.body = Some("multipart")])
    ELSE rb

\* RequestBuilder::multipart: the content type and the form as the body
rb_multipart(rb) ==
    IF rb.ok
    THEN Ok([rb.val EXCEPT
                !.headers = Append(@, [name |-> "content-type", value |-> MultipartFormData]),
                !.body = Some("multipart")])
    ELSE rb

\* The URL assembly of the request pipeline for the operations that go through
\* the helpers request_builder, send, send_json and send_with_params: exactly
\* one trailing slash of the base is trimmed before the path is appended.
pipeline_url(base_url, path) ==
    IF base_url # << >> /\ base_url[Len(base_url)] = "/"
    THEN SubSeq(base_url, 1, Len(base_url) - 1) \o path
    ELSE base_url \o path

\* request_builder(method, path), which send, send_json and send_with_params
\* start from: URL assembly, timeout and the Portkey headers.
request_builder(c, method, path) ==
    apply_portkey_headers(c,
        rb_timeout(reqwest_request(method, pipeline_url(c.config.base_url, path)),
                   c.config.timeout))

\* The arguments of the list operations: PaginationParams (limit, order,
\* after, before), ListModelsParams (ai_service, provider, limit, offset,
\* sort, order), ListInputItemsParams (limit, offset) and ListLogExportsParams
\* (workspace_id); an operation reads the fields it has.
NoArgs ==
    [limit |-> None, order |-> None, after |-> None, before |-> None,
     offset |-> None, sort |-> None, ai_service |-> None, provider |-> None,
     workspace_id |-> None]

KeyLimit == <<"l", "i", "m", "i", "t">>
KeyOrder == <<"o", "r", "d", "e", "r">>
KeyAfter == <<"a", "f", "t", "e", "r">>
KeyBefore == <<"b", "e", "f", "o", "r", "e">>
KeyOffset == <<"o", "f", "f", "s", "e", "t">>
KeySort == <<"s", "o", "r", "t">>
KeyAiService == <<"a", "i", "_", "s", "e", "r", "v", "i", "c", "e">>
KeyProvider == <<"p", "r", "o", "v", "i", "d", "e", "r">>
KeyWorkspaceId == <<"w", "o", "r", "k", "s", "p", "a", "c", "e", "_", "i", "d">>

\* if let Some(v) = field { params.push((key, v)) }
push_if_some(params, key, field) ==
    IF IsSome(field) THEN Append(params, <<key, Unwrap(field)>>) ELSE params

\* Option<i32> to Option<String>: limit.to_string()
to_string_opt(field) == IF IsSome(field) THEN Some(fmt_decimal(Unwrap(field))) ELSE None

\* PaginationParams::to_query_params
to_query_params(p) ==
    push_if_some(
        push_if_some(
            push_if_some(
                push_if_some(<< >>, KeyLimit, to_string_opt(p.limit)),
                KeyOrder, p.order),
            KeyAfter, p.after),
        KeyBefore, p.before)

\* params.join(sep) over texts
RECURSIVE join(_, _)
join(texts, sep) ==
    IF texts = << >> THEN << >>
    ELSE IF Len(texts) = 1 THEN texts[1]
    ELSE texts[1] \o <<sep>> \o join(Tail(texts), sep)

\* list_runs, list_run_steps, list_messages and list_message_files: the URL
\* with format!("limit={}", limit), .. pushed in this order and joined by "&".
list_runs_url(path, args) ==
    LET limit == to_string_opt(args.limit)
        p1 == IF IsSome(limit) THEN <<KeyLimit \o <<"=">> \o Unwrap(limit)>> ELSE << >>
        p2 == IF IsSome(args.order)
              THEN Append(p1, KeyOrder \o <<"=">> \o Unwrap(args.order)) ELSE p1
        p3 == IF IsSome(args.after)
              THEN Append(p2, KeyAfter \o <<"=">> \o Unwrap(args.after)) ELSE p2
        params == IF IsSome(args.before)
                  THEN Append(p3, KeyBefore \o <<"=">> \o Unwrap(args.before)) ELSE p3
    IN  IF params # << >> THEN path \o <<"?">> \o join(params, "&") ELSE path

\* form_urlencoded::byte_serialize, which reqwest's query() and the url
\* crate's query_pairs_mut() write names and values with: a space is "+",
\* every other byte outside [A-Za-z0-9*-._] is percent-encoded.
byte_serialize_char(c) ==
    IF c = " " THEN <<"+">>
    ELSE IF c = "&" THEN <<"%", "2", "6">>
    ELSE IF c = "=" THEN <<"%", "3", "D">>
    ELSE IF c = "#" THEN <<"%", "2", "3">>
    ELSE IF c = "?" THEN <<"%", "3", "F">>
    ELSE IF c = "%" THEN <<"%", "2", "5">>
    ELSE IF c = "+" THEN <<"%", "2", "B">>
    ELSE IF c = "/" THEN <<"%", "2", "F">>
    ELSE <<c>>

RECURSIVE byte_serialize(_)
byte_serialize(text) ==
    IF text = << >> THEN << >>
    ELSE byte_serialize_char(Head(text)) \o byte_serialize(Tail(text))

\* serde_urlencoded of a list of pairs: name=value joined by "&"
urlencoded(params) ==
    join([i \in 1..Len(params) |->
            byte_serialize(params[i][1]) \o <<"=">> \o byte_serialize(params[i][2])],
         "&")

\* RequestBuilder::query: the pairs are appended to the query of the URL; a
\* query left empty is removed.
rb_query(rb, params) ==
    IF ~rb.ok THEN rb
    ELSE LET old == rb.val.url.query
             text == IF IsSome(old) /\ Unwrap(old) # << >> /\ params # << >>
                     THEN Unwrap(old) \o <<"&">> \o urlencoded(params)
                     ELSE IF IsSome(old) /\ params = << >> THEN Unwrap(old)
                     ELSE urlencoded(params)
         IN  Ok([rb.val EXCEPT !.url.query = IF text = << >> THEN None ELSE Some(text)])

\* build_url(path, params): the path with the query pairs attached in the
\* order given, which get then appends to the base URL.
build_url(path, params) ==
    IF params = << >> THEN path ELSE path \o <<"?">> \o urlencoded(params)

\* match sort { ModelSortField::Name => "name", .. }
sort_str(sort) ==
    IF sort = "Name" THEN <<"n", "a", "m", "e">>
    ELSE IF sort = "Provider" THEN KeyProvider
    ELSE KeyAiService

\* list_models: one request.query(&[(name, value)]) for each field set, in
\* the order ai_service, provider, limit, offset, sort, order.
list_models_params(args) ==
    push_if_some(
        push_if_some(
            push_if_some(
                push_if_some(
                    push_if_some(
                        push_if_some(<< >>, KeyAiService, args.ai_service),
                        KeyProvider, args.provider),
                    KeyLimit, to_string_opt(args.limit)),
                KeyOffset, to_string_opt(args.offset)),
            KeySort, IF IsSome(args.sort) THEN Some(sort_str(Unwrap(args.sort))) ELSE None),
        KeyOrder, args.order)

\* list_input_items: limit, then offset
list_input_items_params(args) ==
    push_if_some(push_if_some(<< >>, KeyLimit, to_string_opt(args.limit)),
                 KeyOffset, to_string_opt(args.offset))

\* list_log_exports: workspace_id
list_log_exports_params(args) == push_if_some(<< >>, KeyWorkspaceId, args.workspace_id)

HelperVia == {"request_builder", "send", "send_json", "send_with_params"}

\* The request an operation builds for the path argument id and the list
\* arguments args.
request_of(c, op, id, args) ==
    LET path == format_path(op.path, id)
        start == IF op.via \in HelperVia THEN request_builder(c, op.method, path)
                 ELSE IF op.query = "join"
                 THEN request_with(c, op.method, list_runs_url(path, args))
                 ELSE IF op.query = "build_url"
                 THEN request_with(c, op.method, build_url(path, to_query_params(args)))
                 ELSE request_with(c, op.method, path)
        rb == IF op.query = "send_with_params" THEN rb_query(start, to_query_params(args))
              ELSE IF op.query = "list_models" THEN rb_query(start, list_models_params(args))
              ELSE IF op.query = "list_input_items"
              THEN rb_query(start, list_input_items_params(args))
              ELSE IF op.query = "list_log_exports"
              THEN rb_query(start, list_log_exports_params(args))
              ELSE start
    IN  IF op.body = "json" THEN rb_json(rb)
        ELSE IF op.body = "multipart" THEN rb_multipart(rb)
        ELSE rb

\* The mutant of error_for_status that rejects server errors only.
error_for_status_server_only(resp) ==
    IF resp.status >= 500 /\ resp.status <= 599 THEN Err("Http") ELSE Ok(resp)

\* Response::error_for_status: an error for a client error or server error
\* status (400 to 599), the response itself for every other status.
error_for_status(resp) ==
    IF resp.status >= 400 /\ resp.status <= 599 THEN Err("Http") ELSE Ok(resp)

\* response.json().await?, response.bytes().await? and Ok(()): a body that
\* cannot be read or is not JSON of the expected type is a reqwest::Error,
\* which `?` converts to Error::Http.
read_body(parse, body) ==
    IF parse = "json"
    THEN (IF body = "valid" THEN Ok("value") ELSE Err("Http"))
    ELSE IF parse = "bytes"
    THEN (IF body = "unreadable" THEN Err("Http") ELSE Ok("bytes"))
    ELSE Ok("unit")

\* What an operation returns for the response it received.
handle_response(op, resp) ==
    LET checked == error_for_status(resp)
    IN  IF checked.ok THEN read_body(op.parse, checked.val.body) ELSE checked

\* The mutant of reads_body that reads the body before the status is looked
\* at.
reads_body_first(op, resp) == op.parse # "unit"

\* Whether an operation reads the body of the response it received: only
\* after error_for_status()? let the response through, and not for Ok(()).
reads_body(op, resp) == error_for_status(resp).ok /\ op.parse # "unit"

\* The operation in progress: its position (pc), how many requests it has
\* dispatched (sends) and how many bodies it has read (reads); pc "done"
\* once it has returned.
Calling == IsSome(call) /\ Unwrap(call).pc # "done"
TheCall == Unwrap(call)

\* An operation is called: it builds its request.
Call(op, id, args) ==
    /\ HasClient
    /\ ~Calling
    /\ call' = Some([op |-> op, args |-> args, pc |-> "send", sends |-> 0, reads |-> 0])
    /\ request' = Some([path |-> format_path(op.path, id),
                        rb |-> request_of(TheClient, op, id, args)])
    /\ response' = None
    /\ result' = None
    /\ UNCHANGED <<builder, built, client, out, env, clones>>

\* The mutant of Send that dispatches the request again after a transport
\* failure, up to three times.
Send_retry(statuses, bodies) ==
    /\ Calling
    /\ TheCall.pc = "send"
    /\ \/ /\ ~Unwrap(request).rb.ok
          /\ result' = Some(Err("Http"))
          /\ call' = [call EXCEPT ![1].pc = "done"]
          /\ UNCHANGED response
       \/ /\ Unwrap(request).rb.ok
          /\ result' = Some(Err("Http"))
          /\ call' = [call EXCEPT ![1].pc = IF TheCall.sends < 2 THEN "send" ELSE "done",
                                  ![1].sends = @ + 1]
          /\ UNCHANGED response
       \/ /\ Unwrap(request).rb.ok
          /\ \E status \in statuses, body \in bodies :
                response' = Some([status |-> status, body |-> body])
          /\ call' = [call EXCEPT ![1].pc = "receive", ![1].sends = @ + 1]
          /\ UNCHANGED result
    /\ UNCHANGED <<builder, built, client, request, out, env, clones>>

\* .send().await?: a builder holding an error fails without a request going
\* out; otherwise the request is dispatched, and the transport fails (no
\* connection, timeout) or a response arrives.
Send(statuses, bodies) ==
    /\ Calling
    /\ TheCall.pc = "send"
    /\ \/ /\ ~Unwrap(request).rb.ok
          /\ result' = Some(Err("Http"))
          /\ call' = [call EXCEPT ![1].pc = "done"]
          /\ UNCHANGED response
       \/ /\ Unwrap(request).rb.ok
          /\ result' = Some(Err("Http"))
          /\ call' = [call EXCEPT ![1].pc = "done", ![1].sends = @ + 1]
          /\ UNCHANGED response
       \/ /\ Unwrap(request).rb.ok
          /\ \E status \in statuses, body \in bodies :
                response' = Some([status |-> status, body |-> body])
          /\ call' = [call EXCEPT ![1].pc = "receive", ![1].sends = @ + 1]
          /\ UNCHANGED result
    /\ UNCHANGED <<builder, built, client, request, out, env, clones>>

\* The rest of the operation: error_for_status()?, then the body.
Return ==
    /\ Calling
    /\ TheCall.pc = "receive"
    /\ result' = Some(handle_response(TheCall.op, Unwrap(response)))
    /\ call' = [call EXCEPT
                  ![1].pc = "done",
                  ![1].reads = IF reads_body(TheCall.op, Unwrap(response))
                               THEN @ + 1 ELSE @]
    /\ UNCHANGED <<builder, built, client, request, response, out, env, clones>>

----------------------------------------------------------------------------
(* SpecService: a client calling every service operation *)

Statuses == {200, 204, 304, 401, 500}
Bodies == {"valid", "invalid", "unreadable"}
SampleId == <<"i", "d">>

InitService ==
    /\ builder = [PortkeyBuilder_default EXCEPT
                    !.api_key = Some(SK), !.auth_method = Some(VirtualKey(VK))]
    /\ built = None
    /\ client = None
    /\ request = None
    /\ response = None
    /\ result = None
    /\ call = None
    /\ out = None
    /\ env = NoEnv
    /\ clones = << >>

NextService ==
    \/ with_base_url(NoUrl)
    \/ Build
    \/ New
    \/ \E op \in ServiceOps : Call(op, SampleId, NoArgs)
    \/ Send(Statuses, Bodies)
    \/ Return

SpecService == InitService /\ [][NextService]_vars

----------------------------------------------------------------------------
(* SpecQuery: a client calling the list operations with every combination  *)
(* of list arguments                                                        *)

ListOps == {op \in ServiceOps : op.query # "none"}

Desc == <<"d", "e", "s", "c">>
CursorA == <<"o", "b", "j", "_", "a">>
CursorB == <<"o", "b", "j", "_", "b">>
\* A cursor that holds the characters "&" and "=".
CursorAmp == <<"a", "&", "l", "i", "m", "i", "t", "=", "9">>
OpenAiSpaced == <<"o", "p", "e", "n", " ", "a", "i">>
PageLimit == 20
PageOffset == 5

PaginationArgs ==
    {[NoArgs EXCEPT !.limit = l, !.order = o, !.after = a, !.before = b] :
        l \in {None, Some(PageLimit)}, o \in {None, Some(Desc)},
        a \in {None, Some(CursorA), Some(CursorAmp)}, b \in {None, Some(CursorB)}}

FilterArgs ==
    {[NoArgs EXCEPT !.ai_service = s, !.provider = p, !.offset = f, !.sort = t,
                    !.workspace_id = p] :
        s \in {None, Some(OpenAiSpaced)}, p \in {None, Some(OpenAi)},
        f \in {None, Some(PageOffset)}, t \in {None, Some("Name"), Some("AiService")}}

NextQuery ==
    \/ Build
    \/ New
    \/ \E op \in ListOps, args \in PaginationArgs \cup FilterArgs :
          Call(op, SampleId, args)
    \/ Send({200}, {"valid"})
    \/ Return

SpecQuery == InitService /\ [][NextQuery]_vars

----------------------------------------------------------------------------
(* Construction from the environment and in one step:                      *)
(* PortkeyConfig::from_env, PortkeyClient::from_env, build_client           *)

\* Error::Config(source), which `?` and .into() make of a PortkeyBuilderError
ConfigErr(source) == [ok |-> FALSE, err |-> "Config", source |-> source]

IsDigit(c) == \E i \in 1..10 : DecimalDigits[i] = c
DigitValue(c) == (CHOOSE i \in 1..10 : DecimalDigits[i] = c) - 1

RECURSIVE digits_value(_)
digits_value(digits) ==
    IF Len(digits) = 1 THEN DigitValue(digits[1])
    ELSE 10 * digits_value(SubSeq(digits, 1, Len(digits) - 1))
         + DigitValue(digits[Len(digits)])

\* str::parse::<u64>: decimal digits after an optional "+"; nothing else, no
\* spaces, not the empty text.  (The model's texts stay far below 2^64.)
parse_u64(text) ==
    LET digits == IF text # << >> /\ Head(text) = "+" THEN Tail(text) ELSE text
    IN  IF digits # << >> /\ \A i \in 1..Len(digits) : IsDigit(digits[i])
        THEN Ok(digits_value(digits))
        ELSE Err("ParseIntError")

\* The mutant of parse_bool that takes every text but "false" for true.
parse_bool_truthy(text) ==
    IF text = <<"f", "a", "l", "s", "e">> THEN Ok(FALSE) ELSE Ok(TRUE)

\* str::parse::<bool>: exactly "true" or "false"
parse_bool(text) ==
    IF text = <<"t", "r", "u", "e">> THEN Ok(TRUE)
    ELSE IF text = <<"f", "a", "l", "s", "e">> THEN Ok(FALSE)
    ELSE Err("ParseBoolError")

\* The mutant of env_auth_method that looks at PORTKEY_CONFIG before
\* PORTKEY_PROVIDER.
env_auth_method_config_first(e) ==
    IF IsSome(env_var(e, "PORTKEY_VIRTUAL_KEY"))
    THEN Ok(VirtualKey(Unwrap(env_var(e, "PORTKEY_VIRTUAL_KEY"))))
    ELSE IF IsSome(env_var(e, "PORTKEY_CONFIG"))
    THEN Ok(Config(Unwrap(env_var(e, "PORTKEY_CONFIG"))))
    ELSE IF IsSome(env_var(e, "PORTKEY_PROVIDER"))
    THEN (IF IsSome(env_var(e, "PORTKEY_AUTHORIZATION"))
          THEN Ok(ProviderAuth(Unwrap(env_var(e, "PORTKEY_PROVIDER")),
                               Unwrap(env_var(e, "PORTKEY_AUTHORIZATION")),
                               env_var(e, "PORTKEY_CUSTOM_HOST")))
          ELSE Err("PORTKEY_AUTHORIZATION required when PORTKEY_PROVIDER is set"))
    ELSE Err("One of PORTKEY_VIRTUAL_KEY, PORTKEY_PROVIDER, or PORTKEY_CONFIG must be set")

\* The mutant of env_auth_method that goes on to PORTKEY_CONFIG when
\* PORTKEY_PROVIDER is set without PORTKEY_AUTHORIZATION.
env_auth_method_fall_through(e) ==
    IF IsSome(env_var(e, "PORTKEY_VIRTUAL_KEY"))
    THEN Ok(VirtualKey(Unwrap(env_var(e, "PORTKEY_VIRTUAL_KEY"))))
    ELSE IF IsSome(env_var(e, "PORTKEY_PROVIDER"))
            /\ IsSome(env_var(e, "PORTKEY_AUTHORIZATION"))
    THEN Ok(ProviderAuth(Unwrap(env_var(e, "PORTKEY_PROVIDER")),
                         Unwrap(env_var(e, "PORTKEY_AUTHORIZATION")),
                         env_var(e, "PORTKEY_CUSTOM_HOST")))
    ELSE IF IsSome(env_var(e, "PORTKEY_CONFIG"))
    THEN Ok(Config(Unwrap(env_var(e, "PORTKEY_CONFIG"))))
    ELSE Err("One of PORTKEY_VIRTUAL_KEY, PORTKEY_PROVIDER, or PORTKEY_CONFIG must be set")

\* The mutant of env_auth_method that falls back to an empty config id when
\* no auth variable is set.
env_auth_method_lenient(e) ==
    IF IsSome(env_var(e, "PORTKEY_VIRTUAL_KEY"))
    THEN Ok(VirtualKey(Unwrap(env_var(e, "PORTKEY_VIRTUAL_KEY"))))
    ELSE IF IsSome(env_var(e, "PORTKEY_PROVIDER"))
    THEN (IF IsSome(env_var(e, "PORTKEY_AUTHORIZATION"))
          THEN Ok(ProviderAuth(Unwrap(env_var(e, "PORTKEY_PROVIDER")),
                               Unwrap(env_var(e, "PORTKEY_AUTHORIZATION")),
                               env_var(e, "PORTKEY_CUSTOM_HOST")))
          ELSE Err("PORTKEY_AUTHORIZATION required when PORTKEY_PROVIDER is set"))
    ELSE IF IsSome(env_var(e, "PORTKEY_CONFIG"))
    THEN Ok(Config(Unwrap(env_var(e, "PORTKEY_CONFIG"))))
    ELSE Ok(Config(<< >>))

\* from_env, "Determine authentication method": the first of
\* PORTKEY_VIRTUAL_KEY, PORTKEY_PROVIDER, PORTKEY_CONFIG that is set.
env_auth_method(e) ==
    IF IsSome(env_var(e, "PORTKEY_VIRTUAL_KEY"))
    THEN Ok(VirtualKey(Unwrap(env_var(e, "PORTKEY_VIRTUAL_KEY"))))
    ELSE IF IsSome(env_var(e, "PORTKEY_PROVIDER"))
    THEN (IF IsSome(env_var(e, "PORTKEY_AUTHORIZATION"))
          THEN Ok(ProviderAuth(Unwrap(env_var(e, "PORTKEY_PROVIDER")),
                               Unwrap(env_var(e, "PORTKEY_AUTHORIZATION")),
                               env_var(e, "PORTKEY_CUSTOM_HOST")))
          ELSE Err("PORTKEY_AUTHORIZATION required when PORTKEY_PROVIDER is set"))
    ELSE IF IsSome(env_var(e, "PORTKEY_CONFIG"))
    THEN Ok(Config(Unwrap(env_var(e, "PORTKEY_CONFIG"))))
    ELSE Err("One of PORTKEY_VIRTUAL_KEY, PORTKEY_PROVIDER, or PORTKEY_CONFIG must be set")

\* from_env, the builder it fills from the optional variables; secs is the
\* parsed PORTKEY_TIMEOUT_SECS, if set.
env_builder(e, auth_method, secs) ==
    LET refresh == IF IsSome(env_var(e, "PORTKEY_CACHE_FORCE_REFRESH"))
                   THEN parse_bool(Unwrap(env_var(e, "PORTKEY_CACHE_FORCE_REFRESH")))
                   ELSE Err("unset")
    IN  [PortkeyBuilder_default EXCEPT
            !.api_key = env_var(e, "PORTKEY_API_KEY"),
            !.auth_method = Some(auth_method),
            !.base_url = env_var(e, "PORTKEY_BASE_URL"),
            !.timeout = IF IsSome(secs) THEN Some(from_secs(Unwrap(secs))) ELSE None,
            !.trace_id = env_var(e, "PORTKEY_TRACE_ID"),
            !.cache_namespace = env_var(e, "PORTKEY_CACHE_NAMESPACE"),
            !.cache_force_refresh = IF refresh.ok THEN Some(refresh.val) ELSE None]

\* PortkeyConfig::from_env
from_env(e) ==
    IF IsNone(env_var(e, "PORTKEY_API_KEY"))
    THEN ConfigErr(ValidationError("PORTKEY_API_KEY environment variable not set"))
    ELSE LET auth_method == env_auth_method(e)
             timeout_str == env_var(e, "PORTKEY_TIMEOUT_SECS")
             timeout_secs == IF IsSome(timeout_str) THEN parse_u64(Unwrap(timeout_str))
                             ELSE Err("unset")
         IN  IF ~auth_method.ok THEN ConfigErr(ValidationError(auth_method.err))
             ELSE IF IsSome(timeout_str) /\ ~timeout_secs.ok
             THEN ConfigErr(ValidationError("Invalid PORTKEY_TIMEOUT_SECS value"))
             ELSE LET config ==
                          build(env_builder(e, auth_method.val,
                                            IF IsSome(timeout_str)
                                            THEN Some(timeout_secs.val) ELSE None))
                  IN  IF config.ok THEN config ELSE ConfigErr(config.err)

\* PortkeyClient::from_env: PortkeyConfig::from_env()?, then new
PortkeyClient_from_env(e, transport_ok) ==
    LET config == from_env(e)
    IN  IF config.ok THEN new(config.val, transport_ok) ELSE config

\* The mutant of build_client that skips validate_config.
build_client_unvalidated(b, transport_ok) ==
    IF IsNone(b.api_key) THEN ConfigErr(UninitializedField("api_key"))
    ELSE IF IsNone(b.auth_method) THEN ConfigErr(UninitializedField("auth_method"))
    ELSE new([api_key |-> Unwrap(b.api_key),
              auth_method |-> Unwrap(b.auth_method),
              base_url |-> IF IsSome(b.base_url) THEN Unwrap(b.base_url)
                           ELSE default_base_url,
              timeout |-> IF IsSome(b.timeout) THEN Unwrap(b.timeout)
                          ELSE default_timeout,
              client |-> b.client,
              trace_id |-> b.trace_id,
              metadata |-> b.metadata,
              cache_namespace |-> b.cache_namespace,
              cache_force_refresh |-> b.cache_force_refresh], transport_ok)

\* PortkeyBuilder::build_client: self.build()?, then PortkeyClient::new
build_client(b, transport_ok) ==
    LET config == build(b)
    IN  IF config.ok THEN new(config.val, transport_ok) ELSE ConfigErr(config.err)

FromEnv ==
    /\ Building
    /\ built' = Some(from_env(env))
    /\ out' = Some([fn |-> "from_env", ret |-> from_env(env)])
    /\ UNCHANGED <<builder, client, request, response, result, call, env, clones>>

ClientFromEnv ==
    /\ IsNone(client)
    /\ \E transport_ok \in BOOLEAN :
          /\ client' = Some(PortkeyClient_from_env(env, transport_ok))
          /\ out' = Some([fn |-> "PortkeyClient::from_env",
                          ret |-> PortkeyClient_from_env(env, transport_ok)])
    /\ UNCHANGED <<builder, built, request, response, result, call, env, clones>>

BuildClient ==
    /\ IsNone(client)
    /\ \E transport_ok \in BOOLEAN :
          /\ client' = Some(build_client(builder, transport_ok))
          /\ out' = Some([fn |-> "build_client",
                          ret |-> build_client(builder, transport_ok)])
    /\ UNCHANGED <<builder, built, request, response, result, call, env, clones>>

----------------------------------------------------------------------------
(* SpecEnv: construction from every environment *)

Sixty == <<"6", "0">>
Zero == <<"0">>
NotANumber == <<"6", "0", "s">>
Yes == <<"y", "e", "s">>
ThreeHundredOne == <<"3", "0", "1">>

Envs ==
    {[NoEnv EXCEPT !["PORTKEY_API_KEY"] = k, !["PORTKEY_VIRTUAL_KEY"] = v,
                   !["PORTKEY_PROVIDER"] = p, !["PORTKEY_AUTHORIZATION"] = a,
                   !["PORTKEY_CUSTOM_HOST"] = h, !["PORTKEY_CONFIG"] = c,
                   !["PORTKEY_BASE_URL"] = u, !["PORTKEY_TIMEOUT_SECS"] = t,
                   !["PORTKEY_TRACE_ID"] = r, !["PORTKEY_CACHE_NAMESPACE"] = r,
                   !["PORTKEY_CACHE_FORCE_REFRESH"] = f] :
        k \in {None, Some(SK), Some(<<" ">>)}, v \in {None, Some(VK)},
        p \in {None, Some(OpenAi)}, a \in {None, Some(Bearer)},
        h \in {None, Some(CustomHost)}, c \in {None, Some(ConfigId)},
        u \in {None, Some(ExampleBase)},
        t \in {None, Some(Sixty), Some(Zero), Some(NotANumber),
               Some(ThreeHundredOne)},
        r \in {None, Some(TraceId)},
        f \in {None, Some(bool_to_string(TRUE)), Some(Yes)}}

InitEnv ==
    /\ builder = PortkeyBuilder_default
    /\ built = None
    /\ client = None
    /\ request = None
    /\ response = None
    /\ result = None
    /\ call = None
    /\ out = None
    /\ env \in Envs
    /\ clones = << >>

NextEnv ==
    \/ FromEnv
    \/ ClientFromEnv
    \/ New

SpecEnv == InitEnv /\ [][NextEnv]_vars

----------------------------------------------------------------------------
(* SpecLife: from construction, by the builder or from the environment, to *)
(* the calls of a client                                                    *)

Blank == <<" ">>
LifeEnvs ==
    {NoEnv,
     [NoEnv EXCEPT !["PORTKEY_API_KEY"] = Some(SK)],
     [NoEnv EXCEPT !["PORTKEY_API_KEY"] = Some(Blank), !["PORTKEY_VIRTUAL_KEY"] = Some(VK)],
     [NoEnv EXCEPT !["PORTKEY_API_KEY"] = Some(SK), !["PORTKEY_VIRTUAL_KEY"] = Some(VK)]}
LifeOps == ChatOps \cup ModelsOps
LifeStatuses == {200, 500}

InitLife ==
    /\ builder = PortkeyBuilder_default
    /\ built = None
    /\ client = None
    /\ request = None
    /\ response = None
    /\ result = None
    /\ call = None
    /\ out = None
    /\ env \in LifeEnvs
    /\ clones = << >>

NextLife ==
    \/ \E k \in {SK, Blank} : with_api_key(k)
    \/ with_auth_method(VirtualKey(VK))
    \/ with_timeout(from_secs(0))
    \/ Build
    \/ BuildClient
    \/ FromEnv
    \/ ClientFromEnv
    \/ New
    \/ \E op \in LifeOps : Call(op, SampleId, NoArgs)
    \/ Send(LifeStatuses, {"valid"})
    \/ Return

SpecLife == InitLife /\ [][NextLife]_vars

----------------------------------------------------------------------------
(* SpecRebuild: build() called again, and a config derived again from the  *)
(* values of a built one, while the environment changes                     *)

\* PortkeyConfig::builder() filled with the values a config returns from
\* api_key(), auth_method(), base_url(), timeout() and the optional accessors.
builder_of(config) ==
    [PortkeyBuilder_default EXCEPT
        !.api_key = Some(config.api_key),
        !.auth_method = Some(config.auth_method),
        !.base_url = Some(config.base_url),
        !.timeout = Some(config.timeout),
        !.client = config.client,
        !.trace_id = config.trace_id,
        !.metadata = config.metadata,
        !.cache_namespace = config.cache_namespace,
        !.cache_force_refresh = config.cache_force_refresh]

\* build() is called once more on the same builder.
BuildAgain ==
    /\ IsSome(built)
    /\ out' = Some([fn |-> "build", ret |-> build(builder)])
    /\ UNCHANGED <<builder, built, client, request, response, result, call, env, clones>>

\* A second config is built from the values of the first.
Rederive ==
    /\ HasConfig
    /\ out' = Some([fn |-> "rederive", ret |-> build(builder_of(TheConfig))])
    /\ UNCHANGED <<builder, built, client, request, response, result, call, env, clones>>

\* The process environment is changed from outside the builder.
ChangeEnv(envs) ==
    /\ \E e \in envs \ {env} : env' = e
    /\ UNCHANGED <<builder, built, client, request, response, result, call, out, clones>>

RebuildEnvs ==
    {NoEnv,
     [NoEnv EXCEPT !["PORTKEY_API_KEY"] = Some(VK), !["PORTKEY_BASE_URL"] = Some(ExampleBase),
                   !["PORTKEY_TIMEOUT_SECS"] = Some(Sixty)]}

InitRebuild ==
    /\ builder = PortkeyBuilder_default
    /\ built = None
    /\ client = None
    /\ request = None
    /\ response = None
    /\ result = None
    /\ call = None
    /\ out = None
    /\ env \in RebuildEnvs
    /\ clones = << >>

NextRebuild ==
    \/ \E k \in {SK, Blank, <<" ", "s", "k", "-", "1", " ">>} : with_api_key(k)
    \/ \E a \in AuthMethods : with_auth_method(a)
    \/ with_base_url(ExampleBaseSlash)
    \/ \E t \in {from_secs(0), from_secs(1), from_secs(MaxTimeoutSecs)} : with_timeout(t)
    \/ with_trace_id(TraceId)
    \/ Build
    \/ BuildClient
    \/ BuildAgain
    \/ Rederive
    \/ ChangeEnv(RebuildEnvs)

SpecRebuild == InitRebuild /\ [][NextRebuild]_vars

----------------------------------------------------------------------------
(* SpecClones: the clones of one client, each calling operations while the *)
(* others have calls of their own in flight                                 *)

MaxClones == 2

\* The mutant of clone that gives the new handle a client state of its own,
\* without the trace id.
clone_own_state(c) == [c EXCEPT !.config.trace_id = None]

\* #[derive(Clone)] on PortkeyClient { inner: Arc<PortkeyClientInner> }: the
\* new handle points at the PortkeyClientInner of the handle it was cloned
\* from, so it reads the same config and the same transport.
clone(c) == c

\* client.clone(): one more handle, with no call in progress.
Clone ==
    /\ HasClient
    /\ Len(clones) < MaxClones
    /\ clones' = Append(clones, [handle |-> clone(TheClient), task |-> None])
    /\ UNCHANGED <<builder, built, client, request, response, result, call, out, env>>

\* The call a handle has in progress.
Busy(i) == IsSome(clones[i].task) /\ Unwrap(clones[i].task).pc # "done"
TheTask(i) == Unwrap(clones[i].task)

\* A clone calls an operation: it builds its request from the state behind
\* its own handle and from the arguments of the call.
CloneCall(i, op, id, args) ==
    /\ i \in DOMAIN clones
    /\ ~Busy(i)
    /\ clones' = [clones EXCEPT ![i].task =
            Some([op |-> op, id |-> id, args |-> args, pc |-> "send", sends |-> 0,
                  request |-> request_of(clones[i].handle, op, id, args),
                  response |-> None, result |-> None])]
    /\ UNCHANGED <<builder, built, client, request, response, result, call, out, env>>

\* .send().await? in a clone's call, as in Send.
CloneSend(i, statuses, bodies) ==
    /\ i \in DOMAIN clones
    /\ Busy(i)
    /\ TheTask(i).pc = "send"
    /\ \/ /\ ~TheTask(i).request.ok
          /\ clones' = [clones EXCEPT ![i].task[1].pc = "done",
                                      ![i].task[1].result = Some(Err("Http"))]
       \/ /\ TheTask(i).request.ok
          /\ clones' = [clones EXCEPT ![i].task[1].pc = "done",
                                      ![i].task[1].sends = @ + 1,
                                      ![i].task[1].result = Some(Err("Http"))]
       \/ /\ TheTask(i).request.ok
          /\ \E status \in statuses, body \in bodies :
                clones' = [clones EXCEPT
                    ![i].task[1].pc = "receive",
                    ![i].task[1].sends = @ + 1,
                    ![i].task[1].response = Some([status |-> status, body |-> body])]
    /\ UNCHANGED <<builder, built, client, request, response, result, call, out, env>>

\* The rest of a clone's call, as in Return.
CloneReturn(i) ==
    /\ i \in DOMAIN clones
    /\ Busy(i)
    /\ TheTask(i).pc = "receive"
    /\ clones' = [clones EXCEPT
            ![i].task[1].pc = "done",
            ![i].task[1].result =
                Some(handle_response(TheTask(i).op, Unwrap(TheTask(i).response)))]
    /\ UNCHANGED <<builder, built, client, request, response, result, call, out, env>>

CloneCalls ==
    {<<op, args>> : op \in ChatOps, args \in {NoArgs}}
    \cup {<<op, args>> : op \in ModelsOps,
                         args \in {NoArgs, [NoArgs EXCEPT !.provider = Some(OpenAi)]}}

NextClones ==
    \/ with_trace_id(TraceId)
    \/ with_base_url(NoUrl)
    \/ Build
    \/ New
    \/ Clone
    \/ \E c \in CloneCalls : Call(c[1], SampleId, c[2])
    \/ Send({200}, {"valid"})
    \/ Return
    \/ \E i \in 1..MaxClones, c \in CloneCalls : CloneCall(i, c[1], SampleId, c[2])
    \/ \E i \in 1..MaxClones : CloneSend(i, {200}, {"valid"})
    \/ \E i \in 1..MaxClones : CloneReturn(i)

SpecClones == InitService /\ [][NextClones]_vars

----------------------------------------------------------------------------
(* SpecTimeout: a call whose request is in flight, with the response and   *)
(* the request's timeout racing                                             *)

\* The reqwest::Error of an expired timeout (is_timeout() is true), which
\* `?` converts to Error::Http.
HttpTimeout == [ok |-> FALSE, err |-> "Http", is_timeout |-> TRUE]

Awaiting == Calling /\ TheCall.pc = "await"

\* .send(): the request goes out and the call waits for the response.
Dispatch ==
    /\ Calling
    /\ TheCall.pc = "send"
    /\ Unwrap(request).rb.ok
    /\ call' = [call EXCEPT ![1].pc = "await", ![1].sends = @ + 1]
    /\ UNCHANGED <<builder, built, client, request, response, result, out, env, clones>>

\* .await of send(): the response arrives.
Respond(statuses, bodies) ==
    /\ Awaiting
    /\ \E status \in statuses, body \in bodies :
          response' = Some([status |-> status, body |-> body])
    /\ call' = [call EXCEPT ![1].pc = "receive"]
    /\ UNCHANGED <<builder, built, client, request, result, out, env, clones>>

\* The mutant of TimeoutExpires that sends the request again.
TimeoutExpires_resend ==
    /\ Calling
    /\ TheCall.pc \in {"await", "receive"}
    /\ call' = [call EXCEPT ![1].pc = "send"]
    /\ UNCHANGED <<builder, built, client, request, response, result, out, env, clones>>

\* The timeout set by .timeout(config.timeout()) expires, while the call
\* waits for the response or for the rest of the body: the pending future
\* resolves to a reqwest::Error and `?` returns it as Error::Http.
TimeoutExpires ==
    /\ Calling
    /\ TheCall.pc \in {"await", "receive"}
    /\ result' = Some(HttpTimeout)
    /\ call' = [call EXCEPT ![1].pc = "done"]
    /\ UNCHANGED <<builder, built, client, request, response, out, env, clones>>

TimeoutStatuses == {200, 500}
TimeoutBodies == {"valid", "invalid"}

NextTimeout ==
    \/ with_timeout(from_secs(2 * DefaultTimeoutSecs))
    \/ with_trace_id(TraceId)
    \/ Build
    \/ New
    \/ \E op \in LifeOps \cup FilesOps : Call(op, SampleId, NoArgs)
    \/ Dispatch
    \/ Respond(TimeoutStatuses, TimeoutBodies)
    \/ TimeoutExpires
    \/ Return

SpecTimeout == InitService /\ [][NextTimeout]_vars

\* The timer of a request in flight fires unless the call has ended, and an
\* operation that holds its response runs on to its return.
SpecTimeoutFair ==
    SpecTimeout /\ WF_vars(TimeoutExpires) /\ WF_vars(Return)

----------------------------------------------------------------------------
(* Claims about the builder, checked under Spec *)

AllWhiteSpace(s) == \A i \in 1..Len(s) : s[i] \in WhiteSpace
TimeoutInRange(t) ==
    /\ t.secs > 0 \/ t.nanos > 0
    /\ t.secs < MaxTimeoutSecs \/ (t.secs = MaxTimeoutSecs /\ t.nanos = 0)
KeyAndAuthValid ==
    /\ IsSome(builder.api_key) /\ ~AllWhiteSpace(Unwrap(builder.api_key))
    /\ IsSome(builder.auth_method)

\* C1: with any auth method, an API key that is non-empty after trimming and a
\* timeout in (0, 300s] or no timeout, build() succeeds; an unset base_url
\* becomes "https://api.portkey.ai/v1" and an unset timeout 30 seconds.
C1_BuildSucceedsWithDefaults ==
    (/\ IsSome(built)
     /\ KeyAndAuthValid
     /\ IsNone(builder.timeout) \/ TimeoutInRange(Unwrap(builder.timeout)))
    => /\ Unwrap(built).ok
       /\ IsNone(builder.base_url)
            => Unwrap(built).val.base_url = default_base_url_text
       /\ IsNone(builder.timeout)
            => Unwrap(built).val.timeout = [secs |-> 30, nanos |-> 0]

C1_Witness ==
    /\ IsSome(built) /\ Unwrap(built).ok
    /\ KeyAndAuthValid
    /\ IsNone(builder.base_url) /\ IsNone(builder.timeout)
    /\ Unwrap(built).val.base_url = default_base_url_text

\* C2: an API key that is empty or all whitespace makes build() fail with a
\* ValidationError, whatever the other builder fields are (set or not).
C2_BlankKeyRejected ==
    (/\ IsSome(built)
     /\ IsSome(builder.api_key) /\ AllWhiteSpace(Unwrap(builder.api_key)))
    => /\ ~Unwrap(built).ok
       /\ Unwrap(built).err.kind = "ValidationError"

C2_Witness ==
    /\ IsSome(built) /\ ~Unwrap(built).ok
    /\ IsSome(builder.api_key)
    /\ Len(Unwrap(builder.api_key)) > 0 /\ AllWhiteSpace(Unwrap(builder.api_key))
    /\ IsNone(builder.auth_method)
    /\ IsSome(builder.timeout) /\ TimeoutInRange(Unwrap(builder.timeout))

\* C3: with a valid API key and an auth method, build() fails, and with a
\* ValidationError, exactly when the timeout that was set is zero or above
\* 300 seconds; 300 seconds itself is accepted.
C3_TimeoutRange ==
    (IsSome(built) /\ KeyAndAuthValid)
    => /\ ~Unwrap(built).ok
            <=> /\ IsSome(builder.timeout)
                /\ ~TimeoutInRange(Unwrap(builder.timeout))
       /\ ~Unwrap(built).ok => Unwrap(built).err.kind = "ValidationError"

C3_Witness ==
    /\ IsSome(built) /\ Unwrap(built).ok
    /\ KeyAndAuthValid
    /\ builder.timeout = Some([secs |-> MaxTimeoutSecs, nanos |-> 0])

----------------------------------------------------------------------------
(* Claims about masking, checked under SpecMask *)

OutOf(f) == IsSome(out) /\ Unwrap(out).fn = f
OutRet == Unwrap(out).ret

\* C4: masked_api_key() returns a value for every key a built config holds:
\* the first 4 characters followed by "****" for a key of more than 4
\* characters, and "****" for a key of 4 characters or fewer.
C4_MaskedIsFirstFourChars ==
    OutOf("masked_api_key")
    => /\ ~OutRet.panic
       /\ OutRet.val = IF Len(TheConfig.api_key) > 4
                       THEN SubSeq(TheConfig.api_key, 1, 4) \o <<"*", "*", "*", "*">>
                       ELSE <<"*", "*", "*", "*">>

\* The part of C4 the code keeps: for a key of one-byte characters the masked
\* form is the first 4 characters and "****", or "****" alone up to 4.
C4_AsciiMasked ==
    (/\ OutOf("masked_api_key")
     /\ \A i \in 1..Len(TheConfig.api_key) : Utf8Len(TheConfig.api_key[i]) = 1)
    => /\ ~OutRet.panic
       /\ OutRet.val = IF Len(TheConfig.api_key) > 4
                       THEN SubSeq(TheConfig.api_key, 1, 4) \o <<"*", "*", "*", "*">>
                       ELSE <<"*", "*", "*", "*">>

C4_Witness ==
    /\ OutOf("masked_api_key")
    /\ TheConfig.api_key = <<"K", "K", "K", "U+00E9">>
    /\ OutRet.panic

IsRendering == OutOf("fmt_config") \/ OutOf("fmt_client")

PlainKeyChars == {"K", "a", "p", "i", "_", "k", "e", "y"}
IsPlainKey(k) == \A i \in 1..Len(k) : k[i] \in PlainKeyChars
DebugWords ==
    {<<"P", "o", "r", "t", "k", "e", "y", "C", "o", "n", "f", "i", "g">>,
     <<"P", "o", "r", "t", "k", "e", "y", "C", "l", "i", "e", "n", "t">>,
     <<"a", "p", "i", "_", "k", "e", "y">>,
     <<"b", "a", "s", "e", "_", "u", "r", "l">>,
     <<"t", "i", "m", "e", "o", "u", "t">>}

----------------------------------------------------------------------------
(* Claims about request construction, checked under SpecRequest *)

RequestBuilt == IsSome(request) /\ Unwrap(request).rb.ok
TheRequest == Unwrap(request).rb.val

\* How many headers of the request are named n, and the values they carry.
HeaderCount(n) ==
    Cardinality({i \in 1..Len(TheRequest.headers) : TheRequest.headers[i].name = n})
HeaderValues(n) ==
    {TheRequest.headers[i].value :
        i \in {j \in 1..Len(TheRequest.headers) : TheRequest.headers[j].name = n}}
Carries(n, v) == HeaderCount(n) = 1 /\ HeaderValues(n) = {v}
Lacks(n) == HeaderCount(n) = 0

\* C6: the auth headers of a request are exactly those of the config's
\* AuthMethod variant: VirtualKey gives x-portkey-virtual-key alone,
\* ProviderAuth gives x-portkey-provider and Authorization (verbatim) and
\* x-portkey-custom-host exactly when custom_host is set, Config gives
\* x-portkey-config alone; no header of another variant is present.
C6_AuthHeadersOfActiveVariant ==
    RequestBuilt =>
        LET a == TheClient.config.auth_method
        IN  /\ a.tag = "VirtualKey"
                => /\ Carries("x-portkey-virtual-key", a.virtual_key)
                   /\ Lacks("x-portkey-provider") /\ Lacks("authorization")
                   /\ Lacks("x-portkey-custom-host") /\ Lacks("x-portkey-config")
            /\ a.tag = "ProviderAuth"
                => /\ Carries("x-portkey-provider", a.provider)
                   /\ Carries("authorization", a.authorization)
                   /\ IF a.custom_host = << >>
                      THEN Lacks("x-portkey-custom-host")
                      ELSE Carries("x-portkey-custom-host", a.custom_host[1])
                   /\ Lacks("x-portkey-virtual-key") /\ Lacks("x-portkey-config")
            /\ a.tag = "Config"
                => /\ Carries("x-portkey-config", a.config_id)
                   /\ Lacks("x-portkey-virtual-key") /\ Lacks("x-portkey-provider")
                   /\ Lacks("authorization") /\ Lacks("x-portkey-custom-host")

C6_Witness ==
    /\ RequestBuilt
    /\ TheClient.config.auth_method.tag = "ProviderAuth"
    /\ TheClient.config.auth_method.custom_host = << >>
    /\ HeaderCount("authorization") = 1
    /\ HeaderCount("x-portkey-custom-host") = 0

\* C7: every request built by get, post, put, patch or delete, for every
\* path and config, carries x-portkey-api-key with the config's API key.
C7_ApiKeyHeaderOnEveryRequest ==
    RequestBuilt => Carries("x-portkey-api-key", TheClient.config.api_key)

C7_Witness ==
    /\ RequestBuilt
    /\ TheRequest.method = "DELETE"
    /\ TheClient.config.api_key = <<" ", "s", "k", " ">>
    /\ HeaderValues("x-portkey-api-key") = {<<" ", "s", "k", " ">>}

\* The config without its metadata.
WithoutMetadata(c) == [c EXCEPT !.config.metadata = None]

\* C13: when metadata is set and does not serialize, header assembly leaves
\* out x-portkey-metadata only and goes on: the request is the one the same
\* config without metadata gives, with the API key header, the auth headers
\* and every other optional header that is set, and no error comes of it.
C13_MetadataFailureSkipsHeader ==
    (/\ IsSome(request)
     /\ TheClient.config.metadata = Some(UnencodableMetadata))
    => /\ Unwrap(request).rb.ok
          => /\ Lacks("x-portkey-metadata")
             /\ Carries("x-portkey-api-key", TheClient.config.api_key)
             /\ TheClient.config.trace_id # << >>
                  => Carries("x-portkey-trace-id", TheClient.config.trace_id[1])
             /\ TheClient.config.cache_namespace # << >>
                  => Carries("x-portkey-cache-namespace",
                             TheClient.config.cache_namespace[1])
             /\ TheClient.config.cache_force_refresh # << >>
                  => HeaderCount("x-portkey-cache-force-refresh") = 1
             /\ Unwrap(request).rb =
                  request_with(WithoutMetadata(TheClient), TheRequest.method,
                               Unwrap(request).path)
       /\ ~Unwrap(request).rb.ok
          => ~request_with(WithoutMetadata(TheClient), "GET", Unwrap(request).path).ok

C13_Witness ==
    /\ RequestBuilt
    /\ TheClient.config.metadata = Some(UnencodableMetadata)
    /\ TheClient.config.trace_id # << >>
    /\ TheClient.config.cache_force_refresh = Some(TRUE)
    /\ TheRequest.method = "POST"
    /\ Lacks("x-portkey-metadata")
    /\ HeaderCount("x-portkey-trace-id") = 1

V1ChatCompletions ==
    <<"/", "v", "1", "/", "c", "h", "a", "t", "/", "c", "o", "m", "p", "l", "e",
      "t", "i", "o", "n", "s">>

\* C9: for the base "https://api.example.com/v1", with or without a trailing
\* slash, and the path "/chat/completions", the path of the assembled URL is
\* exactly "/v1/chat/completions".
C9_OneSeparator ==
    (/\ RequestBuilt
     /\ TheClient.config.base_url \in {ExampleBase, ExampleBaseSlash}
     /\ Unwrap(request).path = ChatPath)
    => TheRequest.url.path = V1ChatCompletions

\* The part of C9 the code keeps: a base without a trailing slash.
C9_NoTrailingSlash ==
    (/\ RequestBuilt
     /\ TheClient.config.base_url = ExampleBase
     /\ Unwrap(request).path = ChatPath)
    => TheRequest.url.path = V1ChatCompletions

C9_Witness ==
    /\ RequestBuilt
    /\ TheClient.config.base_url = ExampleBaseSlash
    /\ Unwrap(request).path = ChatPath
    /\ TheRequest.url.path =
         <<"/", "v", "1", "/", "/", "c", "h", "a", "t", "/", "c", "o", "m", "p",
           "l", "e", "t", "i", "o", "n", "s">>

----------------------------------------------------------------------------
(* Claims about the service operations, checked under SpecService *)

\* An operation has returned for a response it received.
Answered == IsSome(result) /\ IsSome(response)
TheResponse == Unwrap(response)
TheResult == Unwrap(result)

\* C8, as stated: for every service operation a response whose status is
\* not 2xx, a 3xx included, gives an error and never a parsed value, whatever
\* the body.
C8_NonSuccessIsError ==
    (Answered /\ ~(TheResponse.status \in 200..299)) => ~TheResult.ok

\* C8, amended: for every service operation a response whose status is 400
\* or above gives an error and never a parsed value, even when the body is
\* valid JSON of the expected shape.
C8_ErrorStatusIsError ==
    (Answered /\ TheResponse.status >= 400) => (~TheResult.ok /\ TheResult.err = "Http")

C8_Witness ==
    /\ Answered
    /\ TheResponse = [status |-> 401, body |-> "valid"]
    /\ Unwrap(request).path =
         <<"/", "c", "h", "a", "t", "/", "c", "o", "m", "p", "l", "e", "t", "i", "o", "n", "s">>
    /\ ~TheResult.ok

\* The 3xx case of C8 as the code has it: a 304 with a valid body is parsed.
C8_RedirectionIsParsed ==
    /\ Answered
    /\ TheResponse = [status |-> 304, body |-> "valid"]
    /\ TheResult = Ok("value")

----------------------------------------------------------------------------
(* Claims about the query of the list operations, checked under SpecQuery *)

\* The pieces of text between the separators sep.
RECURSIVE split(_, _)
split(text, sep) ==
    LET i == FirstOf(text, {sep})
    IN  IF i > Len(text) THEN <<text>>
        ELSE <<SubSeq(text, 1, i - 1)>> \o split(SubSeq(text, i + 1, Len(text)), sep)

\* The character a percent code stands for.
PercentCode(hi, lo) ==
    IF <<hi, lo>> = <<"2", "6">> THEN "&"
    ELSE IF <<hi, lo>> = <<"3", "D">> THEN "="
    ELSE IF <<hi, lo>> = <<"2", "3">> THEN "#"
    ELSE IF <<hi, lo>> = <<"3", "F">> THEN "?"
    ELSE IF <<hi, lo>> = <<"2", "5">> THEN "%"
    ELSE IF <<hi, lo>> = <<"2", "B">> THEN "+"
    ELSE IF <<hi, lo>> = <<"2", "F">> THEN "/"
    ELSE "?"

\* Decoding of a name or value of a query: "+" is a space, "%XX" a character.
RECURSIVE percent_decode(_)
percent_decode(text) ==
    IF text = << >> THEN << >>
    ELSE IF Head(text) = "+" THEN <<" ">> \o percent_decode(Tail(text))
    ELSE IF Head(text) = "%" /\ Len(text) >= 3
    THEN <<PercentCode(text[2], text[3])>> \o percent_decode(SubSeq(text, 4, Len(text)))
    ELSE <<Head(text)>> \o percent_decode(Tail(text))

\* One name=value piece of a query as the pair it stands for.
query_pair(piece) ==
    LET i == FirstOf(piece, {"="})
    IN  <<percent_decode(SubSeq(piece, 1, i - 1)),
          percent_decode(SubSeq(piece, i + 1, Len(piece)))>>

\* The parameters a URL carries, in their order: the query split at "&".
query_pairs(url) ==
    IF url.query = << >> THEN << >>
    ELSE LET pieces == SelectSeq(split(url.query[1], "&"), LAMBDA piece : piece # << >>)
         IN  [i \in 1..Len(pieces) |-> query_pair(pieces[i])]

\* The parameters that are set among <<name, optional value>> candidates, in
\* the order of the candidates.
SetOnes(candidates) ==
    LET set == SelectSeq(candidates, LAMBDA c : c[2] # << >>)
    IN  [i \in 1..Len(set) |-> <<set[i][1], set[i][2][1]>>]

Decimal(field) == IF field = << >> THEN << >> ELSE <<fmt_decimal(field[1])>>

\* The parameters the caller supplied to a list operation, in the order the
\* operation names them: limit, order, after, before for pagination.
Supplied(op, args) ==
    IF op.query \in {"join", "build_url", "send_with_params"}
    THEN SetOnes(<< <<KeyLimit, Decimal(args.limit)>>, <<KeyOrder, args.order>>,
                    <<KeyAfter, args.after>>, <<KeyBefore, args.before>> >>)
    ELSE IF op.query = "list_models"
    THEN SetOnes(<< <<KeyAiService, args.ai_service>>, <<KeyProvider, args.provider>>,
                    <<KeyLimit, Decimal(args.limit)>>, <<KeyOffset, Decimal(args.offset)>>,
                    <<KeySort, IF args.sort = << >> THEN << >>
                               ELSE <<sort_str(args.sort[1])>> >>,
                    <<KeyOrder, args.order>> >>)
    ELSE IF op.query = "list_input_items"
    THEN SetOnes(<< <<KeyLimit, Decimal(args.limit)>>, <<KeyOffset, Decimal(args.offset)>> >>)
    ELSE SetOnes(<< <<KeyWorkspaceId, args.workspace_id>> >>)

\* A list operation has built its request and is about to send it.
ListRequestBuilt == Calling /\ TheCall.pc = "send" /\ RequestBuilt

\* C10: the query parameters of the assembled URL are the parameters that
\* were supplied, in the order supplied, none added and none left out: for
\* pagination limit, order, after, before, and only those that are set.
C10_QueryAsSupplied ==
    ListRequestBuilt => query_pairs(TheRequest.url) = Supplied(TheCall.op, TheCall.args)

\* The part of C10 the code keeps: cursors without "&" and "=".
C10_PlainCursorsAsSupplied ==
    (ListRequestBuilt /\ TheCall.args.after # Some(CursorAmp))
    => query_pairs(TheRequest.url) = Supplied(TheCall.op, TheCall.args)

\* list_runs given only the after cursor "a&limit=9" asks for after=a and
\* limit=9.
C10_Witness ==
    /\ ListRequestBuilt
    /\ TheCall.op.name = "list_runs"
    /\ TheCall.args = [NoArgs EXCEPT !.after = Some(CursorAmp)]
    /\ query_pairs(TheRequest.url) = << <<KeyAfter, <<"a">> >>, <<KeyLimit, <<"9">> >> >>

\* The same arguments through reqwest's query(): the cursor arrives whole.
C10_EncodedWitness ==
    /\ ListRequestBuilt
    /\ TheCall.op.name = "list_batches"
    /\ TheCall.args = [NoArgs EXCEPT !.after = Some(CursorAmp)]
    /\ query_pairs(TheRequest.url) = << <<KeyAfter, CursorAmp>> >>

----------------------------------------------------------------------------
(* Claims about construction from the environment, checked under SpecEnv *)

IsConfigError(r) == ~r.ok /\ r.err = "Config"
EnvSet(name) == env[name] # << >>

----------------------------------------------------------------------------
(* Claims about the life of a client, checked under SpecLife *)

\* The conditions validate_config puts on a config.
Validated(config) == ~AllWhiteSpace(config.api_key) /\ TimeoutInRange(config.timeout)

\* A request of the operation in progress or last returned went out.
Dispatched == IsSome(call) /\ TheCall.sends > 0

NothingSent == call = None /\ request = None /\ response = None

\* Construction failed with a Configuration error: no client, nothing sent.
ConfigErrorMeansNoClient ==
    /\ (IsSome(client) /\ IsConfigError(Unwrap(client))) => NothingSent
    /\ ((OutOf("build_client") \/ OutOf("PortkeyClient::from_env"))
            /\ IsConfigError(OutRet))
        => (~HasClient /\ NothingSent)
    /\ (OutOf("from_env") /\ IsConfigError(OutRet)) => ~HasConfig

\* A request goes out only through a client whose config passed validation.
DispatchNeedsValidConfig ==
    (Dispatched \/ IsSome(response)) => (HasClient /\ Validated(TheClient.config))

\* A build() or from_env() that fails touches neither client nor network,
\* and after it PortkeyClient::new has no config to make a client of.
FailedBuildStep ==
    /\ (built' # built /\ ~Unwrap(built').ok)
        => UNCHANGED <<client, request, response, call>>
    /\ (IsSome(built) /\ ~Unwrap(built).ok /\ client' # client) => out' # out

\* C12: a Configuration error comes before any network call: when build(),
\* build_client(), from_env() or PortkeyClient::from_env() fails, no client
\* exists and no request has been dispatched; a request is dispatched only
\* through a client whose config passed validation.
C12_ConfigErrorBeforeNetwork ==
    /\ [](ConfigErrorMeansNoClient /\ DispatchNeedsValidConfig)
    /\ [][FailedBuildStep]_vars

C12_Witness ==
    /\ IsSome(client) /\ IsConfigError(Unwrap(client))
    /\ OutOf("build_client")
    /\ IsSome(builder.api_key) /\ Unwrap(builder.api_key) = Blank
    /\ IsSome(builder.auth_method)
    /\ NothingSent

----------------------------------------------------------------------------
(* Claims about building again, checked under SpecRebuild *)

\* C14: the builder is deterministic: build() called again on the same
\* field values has the same outcome, and a config built from the values of
\* a built config has the same base_url(), timeout() and masked_api_key(),
\* whatever the environment is at either call.
C14_BuilderDeterministic ==
    /\ OutOf("build") => OutRet = Unwrap(built)
    /\ OutOf("rederive")
        => /\ OutRet.ok
           /\ OutRet.val.base_url = TheConfig.base_url
           /\ OutRet.val.timeout = TheConfig.timeout
           /\ masked_api_key(OutRet.val) = masked_api_key(TheConfig)

C14_Witness ==
    /\ OutOf("rederive")
    /\ IsNone(builder.base_url) /\ IsNone(builder.timeout)
    /\ env["PORTKEY_BASE_URL"] = Some(ExampleBase)
    /\ OutRet.ok
    /\ OutRet.val.base_url = default_base_url
    /\ masked_api_key(OutRet.val) = Returned(<<" ", "s", "k", "-", "*", "*", "*", "*">>)

FieldMissing == IsNone(builder.api_key) \/ IsNone(builder.auth_method)
AuthTags == {"VirtualKey", "ProviderAuth", "Config"}

----------------------------------------------------------------------------
(* Claims about response handling, checked under SpecService *)

\* An operation has returned after a response arrived.
HasReturned == IsSome(call) /\ TheCall.pc = "done" /\ IsSome(response)

\* The body can be decoded as the operation expects.
Decodable(op, body) ==
    IF op.parse = "json" THEN body = "valid"
    ELSE IF op.parse = "bytes" THEN body # "unreadable"
    ELSE TRUE

\* C16: a response with status 400 or above becomes an error before the
\* body is read or deserialized; a response with a 2xx or 3xx status is
\* handed on to the reading of the body (JSON or raw bytes), whose outcome is
\* the operation's.
C16_ClassifiedBeforeBody ==
    HasReturned =>
        /\ TheResponse.status >= 400 => (~TheResult.ok /\ TheCall.reads = 0)
        /\ TheResponse.status \in 200..399
            => /\ TheCall.reads = IF TheCall.op.parse = "unit" THEN 0 ELSE 1
               /\ TheResult.ok <=> Decodable(TheCall.op, TheResponse.body)

C16_Witness ==
    /\ HasReturned
    /\ TheCall.op.name = "retrieve_file_content"
    /\ TheResponse = [status |-> 500, body |-> "valid"]
    /\ ~TheResult.ok
    /\ TheCall.reads = 0

\* C17: an operation sends once: one request is dispatched per call, and
\* after a transport failure, a timeout or an error status it returns the
\* error without dispatching the request again.
C17_SingleSend ==
    IsSome(call) =>
        /\ TheCall.sends <= 1
        /\ TheCall.pc = "send" => (TheCall.sends = 0 /\ result = None)
        /\ TheCall.pc = "receive" => TheCall.sends = 1
        /\ TheCall.pc = "done"
            => /\ TheCall.sends = IF Unwrap(request).rb.ok THEN 1 ELSE 0
               /\ IsSome(result)
               /\ (IsNone(response) \/ TheResponse.status >= 400) => ~TheResult.ok

C17_Witness ==
    /\ IsSome(call) /\ TheCall.pc = "done"
    /\ TheCall.op.name = "create_run"
    /\ IsNone(response)
    /\ TheCall.sends = 1
    /\ TheResult = Err("Http")


----------------------------------------------------------------------------
(* Claims about the clones of a client, checked under SpecClones *)

Handles == DOMAIN clones
InFlight(i) == i \in Handles /\ Busy(i)

\* Every handle reads the configuration and the transport the client was
\* made with.
SameConfigEverywhere ==
    \A i \in Handles : HasClient /\ clones[i].handle = TheClient

\* The URL, headers and timeout of a call's request are those the
\* configuration and the call's own arguments give, whatever the other
\* handles are doing.
RequestsFromConfigAndArguments ==
    /\ \A i \in Handles : IsSome(clones[i].task) =>
          TheTask(i).request
              = request_of(TheClient, TheTask(i).op, TheTask(i).id, TheTask(i).args)
    /\ IsSome(call) =>
          Unwrap(request).rb = request_of(TheClient, TheCall.op, SampleId, TheCall.args)

\* No step changes the state behind a handle once the client is made.
SharedStateKept ==
    /\ HasClient => client' = client
    /\ \A i \in Handles : i \in DOMAIN clones' /\ clones'[i].handle = clones[i].handle

\* C18: while any number of clones of one client have calls in flight, the
\* configuration they share is never modified after construction, every
\* clone observes the same configuration values, and the URL, headers and
\* timeout of each request depend only on that configuration and on the
\* call's own arguments.
C18_ClonesShareConfig ==
    /\ [](SameConfigEverywhere /\ RequestsFromConfigAndArguments)
    /\ [][SharedStateKept]_vars

\* Both clones and the first handle have calls in flight at once, with
\* different arguments, on a client that carries a trace id.
C18_Witness ==
    /\ Len(clones) = MaxClones
    /\ \A i \in Handles : InFlight(i)
    /\ Calling
    /\ TheTask(1).args # TheTask(2).args
    /\ TheTask(1).op = TheTask(2).op
    /\ TheTask(1).request # TheTask(2).request
    /\ TheTask(1).pc = "receive" /\ TheTask(2).pc = "send"
    /\ IsSome(TheClient.config.trace_id)

----------------------------------------------------------------------------
(* Claims about the error variants, checked under SpecService *)

\* The operation returned after a response with a status below 400 whose
\* body is not JSON of the type the operation expects.
UndecodableSuccess ==
    /\ HasReturned
    /\ TheCall.op.parse = "json"
    /\ TheResponse.status < 400
    /\ TheResponse.body # "valid"

\* C19, as stated: when the body of a response with a non-error status cannot
\* be decoded as the expected JSON type, the operation fails with the
\* Serialization variant and not with the Http variant.
C19_UndecodableIsSerialization ==
    UndecodableSuccess => (~TheResult.ok /\ TheResult.err = "Serialization")

\* C19 as the code has it: the operation fails, with the Http variant.
C19_UndecodableIsHttp ==
    UndecodableSuccess => (~TheResult.ok /\ TheResult.err = "Http")

\* create_chat_completion received a 200 whose body is not a
\* ChatCompletionResponse and returned Error::Http.
C19_Witness ==
    /\ UndecodableSuccess
    /\ TheCall.op.name = "create_chat_completion"
    /\ TheResponse = [status |-> 200, body |-> "invalid"]
    /\ TheResult = Err("Http")

\* The operation returned on a client whose base URL, with the path
\* appended, does not parse as a URL.
UnparsableUrl ==
    /\ IsSome(call)
    /\ TheCall.pc = "done"
    /\ HasClient
    /\ ~Url_parse(format_url(TheClient.config.base_url, Unwrap(request).path)).ok

\* C20, as stated: a base URL, or base URL and path, that does not parse as
\* a URL yields the UrlParse variant, raised before the request is
\* dispatched, and never causes a network call.
C20_UnparsableUrlIsUrlError ==
    UnparsableUrl =>
        /\ ~TheResult.ok /\ TheResult.err = "UrlParse"
        /\ TheCall.sends = 0 /\ IsNone(response)

\* C20 as the code has it: build() accepts the base URL, the operation fails
\* with the Http variant, and nothing is dispatched.
C20_UnparsableUrlNeverDispatched ==
    UnparsableUrl =>
        /\ ~TheResult.ok /\ TheResult.err = "Http"
        /\ TheCall.sends = 0 /\ IsNone(response)

\* create_chat_completion on a client built with the base URL "nourl"
\* returned Error::Http without a request going out.
C20_Witness ==
    /\ UnparsableUrl
    /\ HasConfig
    /\ TheConfig.base_url = NoUrl
    /\ TheCall.op.name = "create_chat_completion"
    /\ TheResult = Err("Http")
    /\ TheCall.sends = 0

----------------------------------------------------------------------------
(* Claims about the timeout and the headers of a request, checked under    *)
(* SpecRequest                                                              *)

\* C21: the timeout attached to a request is the config's timeout: every
\* request built by get, post, put, patch or delete carries exactly
\* config.timeout(), also when a custom transport was injected.  (No
\* operation takes a timeout of its own, so the override is never given.)
C21_RequestTimeoutIsConfigTimeout ==
    RequestBuilt => TheRequest.timeout = Some(TheClient.config.timeout)

\* A PUT on a client with an injected transport and a timeout of its own.
C21_Witness ==
    /\ RequestBuilt
    /\ TheRequest.method = "PUT"
    /\ TheClient.config.client = Some("custom")
    /\ TheClient.client.transport = "custom"
    /\ TheClient.config.timeout = from_secs(2 * DefaultTimeoutSecs)
    /\ TheRequest.timeout = Some(from_secs(2 * DefaultTimeoutSecs))

----------------------------------------------------------------------------
(* Claims about the timeout of a call, checked under SpecTimeoutFair *)

TimedOut == IsSome(result) /\ "is_timeout" \in DOMAIN TheResult

\* A call that timed out has ended with Error::Http, and the client can be
\* called again: it is there, with a valid config and no call in progress,
\* which is all that Call asks for.
TimedOutIsHttpError ==
    TimedOut =>
        /\ ~TheResult.ok /\ TheResult.err = "Http"
        /\ HasClient /\ Validated(TheClient.config)
        /\ ~Calling

\* A call that waits for its response ends by an error or by going on to
\* the response, and neither the client nor its config changes.
AwaitEndsUnchanged ==
    /\ (Awaiting /\ call' # call) =>
          \/ TimedOut' /\ ~Calling'
          \/ IsSome(response') /\ Unwrap(call').pc = "receive"
    /\ HasClient => (client' = client /\ built' = built)

\* C22: when the timeout of a call expires before a response arrives, the
\* call ends with an Http error: it returns no success value, it does not
\* wait for ever, and the client and its config stay as they were, ready for
\* the next call.
C22_TimeoutEndsCall ==
    /\ [](TimedOutIsHttpError)
    /\ [][AwaitEndsUnchanged]_vars
    /\ (Awaiting ~> ~Calling)

\* The timeout expired with no response received.
C22_Witness ==
    /\ TimedOut
    /\ IsNone(response)
    /\ TheCall.op.name = "create_chat_completion"
    /\ TheCall.sends = 1
    /\ TheClient.config.timeout = from_secs(2 * DefaultTimeoutSecs)

\* The order in which header assembly adds the headers.
HeaderOrder ==
    <<"x-portkey-api-key", "x-portkey-virtual-key", "x-portkey-provider",
      "authorization", "x-portkey-custom-host", "x-portkey-config",
      "x-portkey-trace-id", "x-portkey-metadata", "x-portkey-cache-namespace",
      "x-portkey-cache-force-refresh">>
HeaderRank(n) == CHOOSE k \in 1..Len(HeaderOrder) : HeaderOrder[k] = n
IsPrefix(p, q) == Len(p) <= Len(q) /\ SubSeq(q, 1, Len(p)) = p

\* The headers of the request after the API key step and after the auth
\* method step.
AfterApiKey ==
    api_key_header(TheClient.config, Ok([TheRequest EXCEPT !.headers = << >>])).val.headers
AfterAuthMethod ==
    auth_method_headers(TheClient.config.auth_method,
        api_key_header(TheClient.config,
                       Ok([TheRequest EXCEPT !.headers = << >>]))).val.headers

\* C23: header assembly only adds headers, in the order API key, auth
\* method headers, trace id, metadata, cache namespace, cache force-refresh:
\* what an earlier step set is still there, in its place and with its value,
\* after the later steps, and no header name is on a request twice.
C23_HeadersAddedInOrder ==
    RequestBuilt =>
        LET h == TheRequest.headers
        IN  /\ \A i \in 1..Len(h) : \E k \in 1..Len(HeaderOrder) : HeaderOrder[k] = h[i].name
            /\ \A i, j \in 1..Len(h) :
                  i < j => HeaderRank(h[i].name) < HeaderRank(h[j].name)
            /\ IsPrefix(AfterApiKey, h)
            /\ IsPrefix(AfterAuthMethod, h)

\* A request with provider auth, a custom host and every optional header.
C23_Witness ==
    /\ RequestBuilt
    /\ Len(TheRequest.headers) = 8
    /\ TheRequest.headers[1].name = "x-portkey-api-key"
    /\ TheRequest.headers[4].name = "x-portkey-custom-host"
    /\ TheRequest.headers[5].name = "x-portkey-trace-id"
    /\ TheRequest.headers[8].name = "x-portkey-cache-force-refresh"

\* The header named n is on the request with the value of the option, and
\* is not on it when the option is unset.
HeaderOfOption(n, option) ==
    IF IsSome(option) THEN Carries(n, Unwrap(option)) ELSE Lacks(n)

\* The text header assembly gives each optional value.
FlagText(option) ==
    IF IsSome(option)
    THEN Some(IF Unwrap(option) THEN <<"t", "r", "u", "e">>
              ELSE <<"f", "a", "l", "s", "e">>)
    ELSE None
MetadataJson(option) ==
    IF IsSome(option) /\ serde_json_to_string(Unwrap(option)).ok
    THEN Some(<<"{", "\"">> \o Unwrap(option).key \o <<"\"", ":", "\"">>
              \o Unwrap(option).value \o <<"\"", "}">>)
    ELSE None

\* C24: each optional header is on a request exactly when its config value
\* is set: x-portkey-trace-id with the trace id, x-portkey-cache-namespace
\* with the namespace, x-portkey-cache-force-refresh with "true" or "false"
\* (also when the flag is false), x-portkey-metadata with the JSON of the
\* metadata map; with none set, none of them is present.
C24_OptionalHeadersIffSet ==
    RequestBuilt =>
        LET c == TheClient.config
        IN  /\ HeaderOfOption("x-portkey-trace-id", c.trace_id)
            /\ HeaderOfOption("x-portkey-cache-namespace", c.cache_namespace)
            /\ HeaderOfOption("x-portkey-cache-force-refresh",
                              FlagText(c.cache_force_refresh))
            /\ HeaderOfOption("x-portkey-metadata", MetadataJson(c.metadata))

\* The flag set to false and the metadata set, trace id and namespace unset.
C24_Witness ==
    /\ RequestBuilt
    /\ TheClient.config.cache_force_refresh = Some(FALSE)
    /\ TheClient.config.metadata = Some(Metadata)
    /\ IsNone(TheClient.config.trace_id)
    /\ IsNone(TheClient.config.cache_namespace)
    /\ Carries("x-portkey-cache-force-refresh", <<"f", "a", "l", "s", "e">>)
    /\ Carries("x-portkey-metadata",
               <<"{", "\"", "k", "\"", ":", "\"", "v", "\"", "}">>)
    /\ Lacks("x-portkey-trace-id")

SpacedKey == <<" ", "s", "k", " ">>

\* C25, as stated: the builder trims the API key: for a key with whitespace
\* around non-empty content build() succeeds and the key the config holds,
\* and with it the value of x-portkey-api-key, is the key without that
\* whitespace.
C25_ApiKeyTrimmed ==
    /\ (IsSome(built) /\ IsSome(builder.api_key) /\ IsSome(builder.auth_method)
        /\ trim(Unwrap(builder.api_key)) # << >> /\ IsNone(builder.timeout))
        => (HasConfig /\ TheConfig.api_key = trim(Unwrap(builder.api_key)))
    /\ RequestBuilt
        => Carries("x-portkey-api-key", trim(Unwrap(builder.api_key)))

\* C25 as the code has it: build() succeeds and the config holds the key as
\* it was given, whitespace included.
C25_ApiKeyKeptAsGiven ==
    /\ (IsSome(built) /\ IsSome(builder.api_key) /\ IsSome(builder.auth_method)
        /\ trim(Unwrap(builder.api_key)) # << >> /\ IsNone(builder.timeout))
        => (HasConfig /\ TheConfig.api_key = Unwrap(builder.api_key))
    /\ RequestBuilt
        => Carries("x-portkey-api-key", Unwrap(builder.api_key))

\* build() accepted " sk " and a GET carries it with the spaces.
C25_Witness ==
    /\ builder.api_key = Some(SpacedKey)
    /\ HasConfig
    /\ TheConfig.api_key = SpacedKey
    /\ trim(SpacedKey) = SK
    /\ RequestBuilt
    /\ TheRequest.method = "GET"
    /\ Carries("x-portkey-api-key", SpacedKey)

----------------------------------------------------------------------------
(* Claims about the body of a request, checked under SpecService *)

\* The operations that upload binary content.
MultipartOperations ==
    {"create_transcription", "create_translation", "edit_image",
     "create_image_variation", "upload_file"}

\* C26: no request carries both a JSON body and a multipart form: an
\* operation that sends a body attaches exactly one of them, the multipart
\* form for audio transcription and translation, image edit and variation
\* and file upload, the JSON body otherwise.
C26_OneBodyPerRequest ==
    (IsSome(call) /\ RequestBuilt) =>
        /\ HeaderCount("content-type") <= 1
        /\ TheCall.op.name \in MultipartOperations
            => /\ TheRequest.body = Some("multipart")
               /\ Carries("content-type", MultipartFormData)
        /\ (TheCall.op.name \notin MultipartOperations /\ IsSome(TheRequest.body))
            => /\ TheRequest.body = Some("json")
               /\ Carries("content-type", ApplicationJson)
        /\ IsNone(TheRequest.body) => Lacks("content-type")

\* edit_image built its request with the form alone.
C26_Witness ==
    /\ IsSome(call)
    /\ RequestBuilt
    /\ TheCall.op.name = "edit_image"
    /\ TheRequest.body = Some("multipart")
    /\ HeaderValues("content-type") = {MultipartFormData}
    /\ TheRequest.method = "POST"

----------------------------------------------------------------------------
(* Claims about PortkeyClient::new, checked under SpecRequest *)

\* C27: PortkeyClient::new uses the injected transport when the config
\* holds one and constructs no other (so it cannot fail); only when none is
\* injected does it construct one, with the config's timeout; either way
\* the client keeps the config it was given, unchanged.
C27_NewUsesInjectedTransport ==
    (IsSome(client) /\ HasConfig) =>
        LET made == Unwrap(client)
        IN  /\ IsSome(TheConfig.client)
                => /\ made.ok
                   /\ made.val.client.transport = Unwrap(TheConfig.client)
                   /\ IsNone(made.val.client.timeout)
            /\ (IsNone(TheConfig.client) /\ made.ok)
                => /\ made.val.client.transport = "built"
                   /\ made.val.client.timeout = Some(TheConfig.timeout)
            /\ made.ok => made.val.config = TheConfig

\* A client made of a config with an injected transport and a timeout of its
\* own.
C27_Witness ==
    /\ HasClient
    /\ HasConfig
    /\ TheConfig.client = Some("custom")
    /\ TheConfig.timeout = from_secs(2 * DefaultTimeoutSecs)
    /\ TheClient.client = [transport |-> "custom", timeout |-> None]
    /\ TheClient.config = TheConfig

----------------------------------------------------------------------------
(* Claims about the choices of from_env, checked under SpecEnv *)

WithoutCustomHost == [env EXCEPT !["PORTKEY_CUSTOM_HOST"] = None]

\* C28: from_env() picks one auth method by a fixed precedence when several
\* auth variables are set: PORTKEY_VIRTUAL_KEY before PORTKEY_PROVIDER
\* before PORTKEY_CONFIG; PORTKEY_CUSTOM_HOST is used only when provider auth
\* is the method chosen, and makes no difference otherwise.
C28_AuthPrecedence ==
    OutOf("from_env") =>
        /\ OutRet.ok =>
            LET a == OutRet.val.auth_method
            IN  /\ EnvSet("PORTKEY_VIRTUAL_KEY")
                    => a = VirtualKey(Unwrap(env["PORTKEY_VIRTUAL_KEY"]))
                /\ (~EnvSet("PORTKEY_VIRTUAL_KEY") /\ EnvSet("PORTKEY_PROVIDER"))
                    => /\ EnvSet("PORTKEY_AUTHORIZATION")
                       /\ a = ProviderAuth(Unwrap(env["PORTKEY_PROVIDER"]),
                                           Unwrap(env["PORTKEY_AUTHORIZATION"]),
                                           env["PORTKEY_CUSTOM_HOST"])
                /\ (~EnvSet("PORTKEY_VIRTUAL_KEY") /\ ~EnvSet("PORTKEY_PROVIDER"))
                    => /\ EnvSet("PORTKEY_CONFIG")
                       /\ a = Config(Unwrap(env["PORTKEY_CONFIG"]))
        /\ (EnvSet("PORTKEY_VIRTUAL_KEY") \/ ~EnvSet("PORTKEY_PROVIDER"))
            => OutRet = from_env(WithoutCustomHost)

\* Provider and config both set, no virtual key: provider auth, with the
\* custom host.
C28_Witness ==
    /\ OutOf("from_env")
    /\ OutRet.ok
    /\ ~EnvSet("PORTKEY_VIRTUAL_KEY")
    /\ EnvSet("PORTKEY_PROVIDER") /\ EnvSet("PORTKEY_CONFIG")
    /\ EnvSet("PORTKEY_CUSTOM_HOST")
    /\ OutRet.val.auth_method = ProviderAuth(OpenAi, Bearer, Some(CustomHost))

\* PORTKEY_PROVIDER without PORTKEY_AUTHORIZATION, and no virtual key.
IncompleteProvider ==
    /\ ~EnvSet("PORTKEY_VIRTUAL_KEY")
    /\ EnvSet("PORTKEY_PROVIDER")
    /\ ~EnvSet("PORTKEY_AUTHORIZATION")

\* C29: in from_env(), with PORTKEY_VIRTUAL_KEY unset and PORTKEY_PROVIDER
\* set but PORTKEY_AUTHORIZATION unset, construction fails with a
\* Configuration error even if PORTKEY_CONFIG is set: an incomplete provider
\* set does not fall through to config auth.
C29_IncompleteProviderFails ==
    (OutOf("from_env") /\ IncompleteProvider) =>
        /\ IsConfigError(OutRet)
        /\ EnvSet("PORTKEY_API_KEY")
            => OutRet.source = ValidationError(
                   "PORTKEY_AUTHORIZATION required when PORTKEY_PROVIDER is set")

C29_Witness ==
    /\ OutOf("from_env")
    /\ IncompleteProvider
    /\ EnvSet("PORTKEY_API_KEY")
    /\ env["PORTKEY_API_KEY"] = Some(SK)
    /\ EnvSet("PORTKEY_CONFIG")
    /\ ~EnvSet("PORTKEY_TIMEOUT_SECS")
    /\ IsConfigError(OutRet)

\* The environment gets from_env() as far as the optional values: a key that
\* is not blank and a complete auth method.
EnvAuthComplete ==
    /\ EnvSet("PORTKEY_API_KEY") /\ env["PORTKEY_API_KEY"] # Some(<<" ">>)
    /\ \/ EnvSet("PORTKEY_VIRTUAL_KEY")
       \/ EnvSet("PORTKEY_PROVIDER") /\ EnvSet("PORTKEY_AUTHORIZATION")
       \/ ~EnvSet("PORTKEY_PROVIDER") /\ EnvSet("PORTKEY_CONFIG")
BadTimeoutTexts == {NotANumber, Zero, ThreeHundredOne}

\* C30: from_env() treats malformed optional values differently: a
\* PORTKEY_TIMEOUT_SECS that is no unsigned integer, or is 0 or more than 300,
\* makes construction fail with a Configuration error; a
\* PORTKEY_CACHE_FORCE_REFRESH that is neither "true" nor "false" is ignored,
\* and construction succeeds with cache_force_refresh unset.
C30_MalformedOptionalValues ==
    (OutOf("from_env") /\ EnvAuthComplete) =>
        IF EnvSet("PORTKEY_TIMEOUT_SECS")
           /\ Unwrap(env["PORTKEY_TIMEOUT_SECS"]) \in BadTimeoutTexts
        THEN IsConfigError(OutRet)
        ELSE /\ OutRet.ok
             /\ OutRet.val.cache_force_refresh =
                   IF env["PORTKEY_CACHE_FORCE_REFRESH"] = Some(<<"t", "r", "u", "e">>)
                   THEN Some(TRUE)
                   ELSE IF env["PORTKEY_CACHE_FORCE_REFRESH"]
                           = Some(<<"f", "a", "l", "s", "e">>)
                   THEN Some(FALSE)
                   ELSE None

\* "yes" for the flag and a good timeout: a config with the flag unset.
C30_Witness ==
    /\ OutOf("from_env")
    /\ EnvAuthComplete
    /\ env["PORTKEY_CACHE_FORCE_REFRESH"] = Some(Yes)
    /\ env["PORTKEY_TIMEOUT_SECS"] = Some(Sixty)
    /\ OutRet.ok
    /\ IsNone(OutRet.val.cache_force_refresh)
    /\ OutRet.val.timeout = from_secs(60)

\* "301" for the timeout: a Configuration error.
C30_TimeoutWitness ==
    /\ OutOf("from_env")
    /\ EnvAuthComplete
    /\ env["PORTKEY_TIMEOUT_SECS"] = Some(ThreeHundredOne)
    /\ env["PORTKEY_CACHE_FORCE_REFRESH"] = Some(Yes)
    /\ IsConfigError(OutRet)
====
